---------------------------- MODULE Spec2Model ----------------------------
(***************************************************************************)
(* Trading control plane: the ControlSurface kill switch, the command      *)
(* router, TradeExecutor.place_order / execute_strategy and the simulated  *)
(* gateway (PaperExchange) with its in-memory ledger and its snapshot      *)
(* file.                                                                   *)
(*                                                                         *)
(* Worker threads (the scheduler's thread pool, the webhook thread) call   *)
(* the executor concurrently.  PaperExchange holds no lock, so every       *)
(* statement of create_order that touches self.balances,                   *)
(* self.order_history or self._order_id_counter is a step of its own, and  *)
(* a read-modify-write statement is a read step followed by a write step.  *)
(* Quantities and prices are small naturals (one unit of price stands for  *)
(* a fixed number of USDT); the single symbol is BTC/USDT.                 *)
(***************************************************************************)
EXTENDS Integers, Sequences, FiniteSets, TLC

\* ------------------------------------------------------------------ bounds
\* Number of top-level executor calls started in one behaviour.
MaxCalls == 2

\* Number of scan ticks (execute_strategy calls) started in one behaviour.
MaxTicks == 1

\* Worker threads that may be inside the executor at the same time.
Threads == {"t1", "t2"}

\* Order amounts and limit prices the callers pass.
Amounts == {1, 2}
Prices == {3}

\* None for an optional argument.
NoPrice == 0
NoPanic == -1

\* panic_score values (percent): at the threshold and above it.
PanicScores == {NoPanic, 80, 85}

\* panic_score values a scan tick passes to execute_strategy.
TickPanicScores == {NoPanic, 85}

\* Signals of one scan tick: at most MaxSignals of them.  features stands for
\* the probability (percent) the loaded model gives the signal's features.
MaxSignals == 2
NoFeatures == -1
SignalSet ==
    {[action |-> "buy", price |-> 3, amount |-> 1, features |-> 50],
     [action |-> "buy", price |-> NoPrice, amount |-> 1, features |-> 70],
     [action |-> "buy", price |-> 3, amount |-> 2, features |-> NoFeatures],
     [action |-> "sell", price |-> NoPrice, amount |-> 1, features |-> 50]}

\* ------------------------------------------------------- program constants
\* PaperExchange.__init__ initial_balance, in model units.
InitialBalance == 4
\* TradeExecutor.__init__ panic_threshold = 0.80, in percent.
PanicThreshold == 80
\* execute_strategy's default ml_threshold = 0.6, in percent.
MlThreshold == 60
\* fetch_ticker's hard-coded fallback prices (50010.0 / 49990.0), in model
\* units, returned when the price source fails.
DefaultAsk == 3
DefaultBid == 2
\* The quote the live price source answers with.
LiveTicker == [ask |-> 2, bid |-> 1]

Assets == {"USDT", "BTC"}
Quote == "USDT"
Base == "BTC"

\* Values the TRADING_ENABLED cell can hold; "none" is an absent key.
FlagValues == {"none", "true", "false", "FALSE"}

VARIABLES
    flag,           \* ControlSurface: redis key SYSTEM_STATUS:TRADING_ENABLED
    balances,       \* PaperExchange.balances
    order_history,  \* PaperExchange.order_history
    order_id_counter, \* PaperExchange._order_id_counter
    file,           \* contents of the ledger file on disk
    th,             \* per-thread program counter and locals
    ncalls,         \* top-level calls started so far
    obs,            \* what the last fetch_balance / get_order_history saw
    lastReturned,   \* ledger as it stood when create_order last returned
    cmdlog,         \* last /stop, /start or /panic command handled since the
                    \* flag was last written, "none" if there is none
    sched,          \* Scheduler: the wrapped BackgroundScheduler, its job
                    \* store, its executor and the clock
    db,             \* the ohlcv table, the job's session and the fetch
                    \* job's position
    pred,           \* SignalPredictor: class attributes, the instance's
                    \* fields and each caller's position
    calc,           \* the last call of a pure calculation: its function,
                    \* arguments and result
    boot            \* bot.py: the process's position, its configuration,
                    \* its exit code and the two jobs of setup_all_jobs

coreVars == <<flag, balances, order_history, order_id_counter, file, th,
              ncalls, obs, lastReturned, cmdlog>>

sysVars == <<sched, db, pred, calc, boot>>

vars == <<coreVars, sysVars>>

ledgerVars == <<balances, order_history, order_id_counter>>


\* ----------------------------------------------------------------- helpers
\* str.lower() on the values the cell can hold (trader.py: trading_enabled.lower()).
Lower(v) == IF v = "FALSE" THEN "false" ELSE v

\* A thread outside the executor.
IdleThread ==
    [pc |-> "idle", outer |-> "none",
     side |-> "buy", amount |-> 0, price |-> NoPrice, otype |-> "limit",
     panic |-> NoPanic,
     xprice |-> 0, cost |-> 0, tmp |-> 0, oid |-> 0,
     ret |-> "none", retId |-> 0, flagRead |-> "unread", entryRead |-> "unread",
     startedOff |-> FALSE, resumed |-> FALSE, sentWhileOff |-> FALSE,
     placed |-> 0, gw |-> 0, srcFailed |-> FALSE,
     signals |-> <<>>, results |-> <<>>, mlOn |-> FALSE, spanic |-> NoPanic,
     input |-> <<>>,
     positions |-> <<>>, symbol |-> "unbound", held |-> 0,
     mlThreshold |-> MlThreshold, reason |-> "none", last |-> 0,
     sizing |-> [gateway |-> "none", free |-> 0, price |-> 0, result |-> 0]]

\* The in-memory ledger as one value.
Ledger(b, h, c) == [balances |-> b, order_history |-> h, order_id_counter |-> c]
MemLedger == Ledger(balances, order_history, order_id_counter)

\* PaperExchange.__init__ before _load_state: the defaults.
DefaultLedger ==
    Ledger([a \in Assets |-> IF a = Quote THEN InitialBalance ELSE 0], <<>>, 1)

\* _save_state's json.dump: the document written for a ledger.
DumpState(l) ==
    [kind |-> "json",
     balances |-> l.balances,
     order_history |-> l.order_history,
     order_id_counter |-> l.order_id_counter]

\* _load_state: the ledger a newly constructed PaperExchange holds, given the
\* file.  A missing file leaves the defaults; a file json.load cannot parse
\* raises inside the try, before any field is assigned, and leaves the defaults.
LoadState(f) ==
    IF f.kind = "json"
    THEN Ledger(f.balances, f.order_history, f.order_id_counter)
    ELSE DefaultLedger

\* Effect of one logged order on the balances (create_order's balance update).
ApplyOrder(b, o) ==
    IF o.side = "buy"
    THEN [b EXCEPT ![Quote] = @ - o.cost, ![Base] = @ + o.amount]
    ELSE [b EXCEPT ![Base] = @ - o.amount, ![Quote] = @ + o.cost]

RECURSIVE ReplayFrom(_, _)
ReplayFrom(b, h) ==
    IF h = <<>> THEN b ELSE ReplayFrom(ApplyOrder(b, Head(h)), Tail(h))

\* The balances the order log accounts for, from the initial balance.
ReplayBalances(h) == ReplayFrom(DefaultLedger.balances, h)

\* ------------------------------------------------------------------- Init
\* Job ids: one registered through add_job, one through
\* setup_market_data_jobs.
JobIds == {"test_job", "job_update_market_data"}

\* No job under an id.
NoJob == [ver |-> 0, interval |-> 0, body |-> 0, next |-> 0]

\* Scheduler.__init__: a stopped scheduler with an empty store and a fresh
\* pool.  pending: jobs added while stopped; inst: running instances per job
\* id, left: seconds the running body still needs; now: the clock, in
\* seconds; starts: bodies started per id; shut: where a shutdown call is
\* since the last start ("no", "waiting", "returned", "returned_nowait");
\* atCall: bodies running when shutdown(wait=True) was called; lastAdd,
\* lastStart: how the last add_job and start call ended; adds: registrations
\* so far.
SchedulerInit ==
    [state |-> "stopped", poolShut |-> FALSE, shut |-> "no", atCall |-> 0,
     jobs |-> [id \in JobIds |-> NoJob], pending |-> <<>>,
     inst |-> [id \in JobIds |-> 0], left |-> [id \in JobIds |-> 0],
     now |-> 0, starts |-> [id \in JobIds |-> 0],
     lastAdd |-> "none", lastStart |-> "none", adds |-> 0]

\* An empty ohlcv table and an idle fetch job.  rows: committed rows;
\* pending: what the session has added; data: fetched bars still to handle;
\* batch: the bars the run fetched; before: the table when the run began;
\* failure: "fetch" or "commit" when that step of the run failed; result:
\* how the run ended; rolledBack, committed: what the run did to the session;
\* fetcher: the MarketFetcher the run made, "open" or "closed" ("none"
\* before the first run).
FetchJobInit ==
    [pc |-> "idle", rows |-> {}, pending |-> {}, data |-> <<>>,
     batch |-> <<>>, before |-> {}, run |-> 0, failure |-> "none",
     result |-> "none", rolledBack |-> FALSE, committed |-> FALSE,
     fetcher |-> "none"]

\* Threads calling SignalPredictor.get_instance().
PredThreads == {"p1", "p2"}

\* The class before any call: _instance = None (0), _lock free.
\* initialized: the instance's _initialized ("unset" until line 52 has
\* run); created: objects made by super().__new__; inits: runs of __init__'s
\* lines 60-68; t: per caller its position, the instance it got (0: none)
\* and its calls so far; model: the loaded bundle's version (0: self.model
\* is None); lastLoad: how the
\* last _load_model ended; proba: what the last predict_proba returned, in
\* percent (-1 before any); loads, preds: _load_model and predict_proba calls
\* so far.
PredictorInit ==
    [instance |-> 0, lock |-> "free", initialized |-> "unset",
     enabled |-> FALSE, created |-> 0, inits |-> 0,
     model |-> 0, lastLoad |-> "none", proba |-> -1, loads |-> 0,
     preds |-> 0,
     t |-> [p \in PredThreads |-> [pc |-> "idle", got |-> 0, calls |-> 0]]]

\* No calculation called yet.
CalcInit == [fn |-> "none"]

\* The two jobs of setup_all_jobs.
CronJobs == {"job_update_market_data", "job_scan_signals"}

\* No exit code: the process is alive.
NoExit == -1

\* The bot process before config is imported.  pc: where the process is;
\* mode, api_key, secret_key: Config's TRADING_MODE, BINANCE_API_KEY and
\* BINANCE_SECRET_KEY; exit: the process's exit code; sec: the second of the
\* minute; job: per job of setup_all_jobs whether its body is "idle",
\* "running" or "done" in this minute; left: seconds the running body still
\* needs; fetchAtScan: what the market-data body was doing when the scan
\* body started.
BootInit ==
    [pc |-> "import", mode |-> "unset", api_key |-> "", secret_key |-> "",
     exit |-> NoExit, sec |-> 0,
     job |-> [id \in CronJobs |-> "idle"],
     left |-> [id \in CronJobs |-> 0],
     fetchAtScan |-> "none"]

Init ==
    /\ calc = CalcInit
    /\ boot = BootInit
    /\ sched = SchedulerInit
    /\ db = FetchJobInit
    /\ pred = PredictorInit
    /\ flag = "none"
    /\ balances = DefaultLedger.balances
    /\ order_history = <<>>
    /\ order_id_counter = 1
    /\ file = [kind |-> "absent"]
    /\ th = [t \in Threads |-> IdleThread]
    /\ ncalls = 0
    /\ obs = [seen |-> FALSE, logged |-> TRUE, saved |-> TRUE]
    /\ lastReturned = DefaultLedger
    /\ cmdlog = "none"

\* --------------------------------------------------------- ControlSurface
\* redis_client.set('SYSTEM_STATUS:TRADING_ENABLED', v) / delete of the key,
\* by whoever operates the store.  Every place_order call that has not yet
\* read the flag notes a write of a value other than 'false'.
RedisSet(v) ==
    /\ flag' = v
    /\ th' = [t \in Threads |->
                IF th[t].pc = "po_gate" /\ Lower(v) # "false"
                THEN [th[t] EXCEPT !.resumed = TRUE] ELSE th[t]]
    /\ cmdlog' = "none"
    /\ UNCHANGED sysVars
    /\ UNCHANGED <<ledgerVars, file, ncalls, obs, lastReturned>>

\* ---------------------------------------------------------- CommandRouter
\* handle_stop_command: sends the acknowledgement; the flag write is a TODO.
HandleStopFlag == flag

\* handle_panic_command: sends the acknowledgement; the flag write and the
\* call of close_all_positions are TODOs.
HandlePanicFlag == flag

\* handle_command: '/stop' -> handle_stop_command, '/panic' ->
\* handle_panic_command; '/status' and everything else ('/start' included:
\* no branch for it) leave the store alone.
HandleCommandFlag(command) ==
    IF command = "/stop" THEN HandleStopFlag
    ELSE IF command = "/panic" THEN HandlePanicFlag
    ELSE flag

HandleCommand(command) ==
    /\ flag' = HandleCommandFlag(command)
    /\ cmdlog' = IF command \in {"/stop", "/start", "/panic"} THEN command
                 ELSE cmdlog
    /\ UNCHANGED sysVars
    /\ UNCHANGED <<ledgerVars, file, th, ncalls, obs, lastReturned>>

Commands == {"/status", "/stop", "/start", "/panic", "/help"}


\* ----------------------------------------------- TradeExecutor.place_order
\* KillSwitch that suspends when the read raises or the key is absent.
KillSwitchFailClosed(readOk, value) ==
    IF ~readOk \/ value = "none" \/ Lower(value) = "false"
    THEN "TradingSuspended" ELSE "pass"

\* KillSwitch without the .lower(): only the exact string 'false' suspends.
KillSwitchNoLower(readOk, value) ==
    IF readOk /\ value = "false" THEN "TradingSuspended" ELSE "pass"

\* Lines 175-190: the kill-switch check.  A read that raises is logged and
\* the order continues; an absent key counts as 'true'.
KillSwitch(readOk, value) ==
    IF ~readOk THEN "pass"
    ELSE IF Lower(IF value = "none" THEN "true" ELSE value) = "false"
         THEN "TradingSuspended"
         ELSE "pass"

\* The panic gate refusing at the threshold as well as above it.
PanicGateAtThreshold(side, panic_score) ==
    side = "buy" /\ panic_score # NoPanic /\ panic_score >= PanicThreshold

\* Lines 193-200: the panic gate, buys only.
PanicGate(side, panic_score) ==
    side = "buy" /\ panic_score # NoPanic /\ panic_score > PanicThreshold

\* Lines 204-218: which create_order call place_order makes.
DispatchType(order_type, price) ==
    IF order_type = "limit" /\ price # NoPrice THEN "limit" ELSE "market"

\* Lines 234-241 with the exception raised on to the caller.
PlaceOrderReraise(exc) == exc

\* Lines 234-241: any Exception raised inside the try (by create_order, or
\* by reading order['id']) is logged and turned into an error record.
PlaceOrderExcept(exc) == "error"

\* Where control goes when place_order ends with `outcome` (a raised
\* exception or a returned record).  Called directly, the caller gets it; in
\* execute_strategy (lines 544-565) a returned record is appended, and a
\* raised exception is caught by the loop's except and appended as an error.
\* In close_all_positions (lines 600-622) likewise; the error record made of
\* the kill switch's RuntimeError is kept apart from the other errors.
\* In monitor_positions (lines 434-447, through close_position 389-402) a
\* success record gets the reason and is appended, an error record is
\* appended as it is, and a raised exception is logged by the loop's except
\* with nothing appended.
AfterPlaceOrder(r, outcome) ==
    IF r.outer = "strategy"
    THEN [r EXCEPT !.pc = "es_loop",
                   !.results = Append(@,
                       IF outcome \in {"TradingSuspended", "PanicTooHigh"}
                       THEN "error" ELSE outcome),
                   !.signals = Tail(@),
                   !.side = "buy", !.amount = 0, !.cost = 0,
                   !.price = NoPrice, !.otype = "limit", !.panic = NoPanic,
                   !.xprice = 0, !.tmp = 0, !.oid = 0,
                   !.flagRead = "unread", !.startedOff = FALSE,
                   !.resumed = FALSE, !.sentWhileOff = FALSE,
                   !.srcFailed = FALSE]
    ELSE IF r.outer = "monitor"
    THEN [r EXCEPT !.pc = "mo_loop",
                   !.results =
                       IF outcome = "success" THEN Append(@, "success_" \o r.reason)
                       ELSE IF outcome = "error" THEN Append(@, "error")
                       ELSE @,
                   !.positions = Tail(@),
                   !.side = "buy", !.amount = 0, !.cost = 0,
                   !.price = NoPrice, !.otype = "limit", !.panic = NoPanic,
                   !.xprice = 0, !.tmp = 0, !.oid = 0,
                   !.flagRead = "unread", !.startedOff = FALSE,
                   !.resumed = FALSE, !.sentWhileOff = FALSE,
                   !.srcFailed = FALSE, !.reason = "none", !.last = 0]
    ELSE IF r.outer = "close"
    THEN [r EXCEPT !.pc = "ca_loop",
                   !.results = Append(@,
                       IF outcome = "TradingSuspended" THEN "error_suspended"
                       ELSE IF outcome = "PanicTooHigh" THEN "error"
                       ELSE outcome),
                   !.positions = Tail(@),
                   !.side = "buy", !.amount = 0, !.cost = 0,
                   !.price = NoPrice, !.otype = "limit", !.panic = NoPanic,
                   !.xprice = 0, !.tmp = 0, !.oid = 0,
                   !.flagRead = "unread", !.startedOff = FALSE,
                   !.resumed = FALSE, !.sentWhileOff = FALSE,
                   !.srcFailed = FALSE]
    ELSE [r EXCEPT !.pc = "done", !.ret = outcome,
                   !.retId = IF outcome = "success" THEN r.oid ELSE 0,
                   !.price = NoPrice, !.otype = "limit",
                   !.panic = IF outcome \in {"TradingSuspended", "PanicTooHigh"}
                             THEN @ ELSE NoPanic,
                   !.xprice = 0, !.tmp = 0, !.oid = 0]

\* A caller enters place_order.
EnterPlaceOrder(r, side, amount, price, order_type, panic_score) ==
    [r EXCEPT !.pc = "po_gate", !.side = side, !.amount = amount,
              !.price = price, !.otype = order_type, !.panic = panic_score,
              !.flagRead = "unread", !.ret = "none",
              !.startedOff = (Lower(flag) = "false"), !.resumed = FALSE,
              !.placed = @ + 1]

CallPlaceOrder(t) ==
    /\ th[t].pc = "idle"
    /\ ncalls < MaxCalls
    /\ \E side \in {"buy", "sell"}, amount \in Amounts,
          price \in Prices \cup {NoPrice}, order_type \in {"limit", "market"},
          panic_score \in PanicScores :
         th' = [th EXCEPT ![t] =
                  EnterPlaceOrder([IdleThread EXCEPT !.outer = "direct"],
                                  side, amount, price, order_type, panic_score)]
    /\ ncalls' = ncalls + 1
    /\ UNCHANGED sysVars
    /\ UNCHANGED <<flag, ledgerVars, file, obs, lastReturned, cmdlog>>

\* Amounts and limit prices no check keeps a caller from passing: negative,
\* zero and positive amounts, a negative and a positive price.
SignedAmounts == {-1, 0, 1}
SignedPrices == {-3, 3}

\* place_order called with any amount and price; neither place_order nor
\* create_order looks at their sign.
CallPlaceOrderSigned(t) ==
    /\ th[t].pc = "idle"
    /\ ncalls < MaxCalls
    /\ \E side \in {"buy", "sell"}, amount \in SignedAmounts,
          price \in SignedPrices \cup {NoPrice}, order_type \in {"limit", "market"} :
         th' = [th EXCEPT ![t] =
                  EnterPlaceOrder([IdleThread EXCEPT !.outer = "direct"],
                                  side, amount, price, order_type, NoPanic)]
    /\ ncalls' = ncalls + 1
    /\ UNCHANGED sysVars
    /\ UNCHANGED <<flag, ledgerVars, file, obs, lastReturned, cmdlog>>

\* GateStep with the kill switch applied to buys only.
GateStepSellBypass(r, readOk, value) ==
    LET seen == [r EXCEPT !.flagRead = IF readOk THEN value ELSE "error"] IN
    IF r.side = "buy" /\ KillSwitch(readOk, value) = "TradingSuspended"
    THEN AfterPlaceOrder(seen, "TradingSuspended")
    ELSE IF PanicGate(r.side, r.panic)
         THEN AfterPlaceOrder(seen, "PanicTooHigh")
         ELSE [seen EXCEPT !.pc = "co_check",
                           !.otype = DispatchType(r.otype, r.price),
                           !.price = IF DispatchType(r.otype, r.price) = "limit"
                                     THEN r.price ELSE NoPrice,
                           !.panic = NoPanic]

\* GateStep with the panic gate ahead of the kill switch.
GateStepPanicFirst(r, readOk, value) ==
    LET seen == [r EXCEPT !.flagRead = IF readOk THEN value ELSE "error"] IN
    IF PanicGate(r.side, r.panic)
    THEN AfterPlaceOrder(seen, "PanicTooHigh")
    ELSE IF KillSwitch(readOk, value) = "TradingSuspended"
         THEN AfterPlaceOrder(seen, "TradingSuspended")
         ELSE [seen EXCEPT !.pc = "co_check",
                           !.otype = DispatchType(r.otype, r.price),
                           !.price = IF DispatchType(r.otype, r.price) = "limit"
                                     THEN r.price ELSE NoPrice,
                           !.panic = NoPanic]

\* The record after the two gates, lines 172-218 up to the gateway call.
GateStep(r, readOk, value) ==
    LET seen == [r EXCEPT !.flagRead = IF readOk THEN value ELSE "error"] IN
    IF KillSwitch(readOk, value) = "TradingSuspended"
    THEN AfterPlaceOrder(seen, "TradingSuspended")
    ELSE IF PanicGate(r.side, r.panic)
         THEN AfterPlaceOrder(seen, "PanicTooHigh")
         ELSE [seen EXCEPT !.pc = "co_check",
                           !.otype = DispatchType(r.otype, r.price),
                           !.price = IF DispatchType(r.otype, r.price) = "limit"
                                     THEN r.price ELSE NoPrice,
                           !.panic = NoPanic]

PlaceOrderGates(t) ==
    /\ th[t].pc = "po_gate"
    /\ \E readOk \in BOOLEAN :
         th' = [th EXCEPT ![t] = GateStep(th[t], readOk, flag)]
    /\ UNCHANGED sysVars
    /\ UNCHANGED <<flag, ledgerVars, file, ncalls, obs, lastReturned, cmdlog>>

\* The caller takes the result; the thread leaves the executor.
Return(t) ==
    /\ th[t].pc = "done"
    /\ th' = [th EXCEPT ![t] = IdleThread]
    /\ UNCHANGED sysVars
    /\ UNCHANGED <<flag, ledgerVars, file, ncalls, obs, lastReturned, cmdlog>>


\* ------------------------------------------------ PaperExchange gateway
\* fetch_ticker: the price source's quote, or the hard-coded default when the
\* price source raises.
FetchTicker(sourceOk) ==
    IF sourceOk THEN LiveTicker
    ELSE [ask |-> DefaultAsk, bid |-> DefaultBid]

\* The execution price taken from the ask for sells as well.
ExecutionPriceAskOnly(type, side, price, ticker) ==
    IF type = "market" \/ price = NoPrice THEN ticker.ask ELSE price

\* Lines 176-181: the execution price.
ExecutionPrice(type, side, price, ticker) ==
    IF type = "market" \/ price = NoPrice
    THEN (IF side = "buy" THEN ticker.ask ELSE ticker.bid)
    ELSE price

\* The balance check with the sell branch left out.
InsufficientBalanceBuyOnly(b, side, amount, total_cost) ==
    side = "buy" /\ b[Quote] < total_cost

\* The balance check comparing the quote balance with the amount, not the cost.
InsufficientBalanceIgnoresPrice(b, side, amount, total_cost) ==
    IF side = "buy" THEN b[Quote] < amount ELSE b[Base] < amount

\* Lines 187-200: the balance check that raises ValueError.
InsufficientBalance(b, side, amount, total_cost) ==
    IF side = "buy" THEN b[Quote] < total_cost ELSE b[Base] < amount

\* Lines 203-210: the two balance updates, in statement order.
FirstAsset(side) == IF side = "buy" THEN Quote ELSE Base
SecondAsset(side) == IF side = "buy" THEN Base ELSE Quote
FirstUpdate(side, old, amount, total_cost) ==
    IF side = "buy" THEN old - total_cost ELSE old - amount
SecondUpdate(side, old, amount, total_cost) ==
    IF side = "buy" THEN old + amount ELSE old + total_cost

\* Line 176: create_order asks fetch_ticker for a price.
NeedsTicker(type, price) == type = "market" \/ price = NoPrice

\* The call's locals with a note of whether the price source raised while
\* this order was resolving its price.
ResolvePrice(r, sourceOk) ==
    [r EXCEPT !.srcFailed = NeedsTicker(r.otype, r.price) /\ ~sourceOk]

\* Lines 216-227: the order record (single symbol; timestamps left out).
OrderRecord(r) ==
    [id |-> r.oid, type |-> r.otype, side |-> r.side, amount |-> r.amount,
     price |-> r.xprice, cost |-> r.cost, status |-> "closed"]

\* Lines 173-200: price resolution, cost, balance check.  The ValueError
\* reaches place_order's except (lines 234-241) and becomes an error record.
CheckStep(r, b, ticker) ==
    LET xp == ExecutionPrice(r.otype, r.side, r.price, ticker)
        tc == r.amount * xp
        in == [r EXCEPT !.xprice = xp, !.cost = tc, !.gw = @ + 1,
                        !.sentWhileOff = (Lower(flag) = "false")]
    IN IF InsufficientBalance(b, r.side, r.amount, tc)
       THEN AfterPlaceOrder(in, PlaceOrderExcept("InsufficientBalance"))
       ELSE [in EXCEPT !.pc = "co_upd1_r"]

CreateOrderCheck(t) ==
    /\ th[t].pc = "co_check"
    /\ \E sourceOk \in BOOLEAN :
         th' = [th EXCEPT ![t] = CheckStep(ResolvePrice(th[t], sourceOk), balances,
                                             FetchTicker(sourceOk))]
    /\ UNCHANGED sysVars
    /\ UNCHANGED <<flag, ledgerVars, file, ncalls, obs, lastReturned, cmdlog>>

\* Line 205 / 209, right-hand side: self.balances.get(asset, 0).
FirstUpdateRead(t) ==
    /\ th[t].pc = "co_upd1_r"
    /\ th' = [th EXCEPT ![t].pc = "co_upd1_w",
                        ![t].tmp = balances[FirstAsset(th[t].side)]]
    /\ UNCHANGED sysVars
    /\ UNCHANGED <<flag, ledgerVars, file, ncalls, obs, lastReturned, cmdlog>>

\* Line 205 / 209, the store.
FirstUpdateWrite(t) ==
    /\ th[t].pc = "co_upd1_w"
    /\ balances' = [balances EXCEPT ![FirstAsset(th[t].side)] =
                      FirstUpdate(th[t].side, th[t].tmp, th[t].amount, th[t].cost)]
    /\ th' = [th EXCEPT ![t].pc = "co_upd2_r", ![t].tmp = 0]
    /\ UNCHANGED sysVars
    /\ UNCHANGED <<flag, order_history, order_id_counter, file, ncalls, obs,
                   lastReturned, cmdlog>>

\* Line 206 / 210, right-hand side.
SecondUpdateRead(t) ==
    /\ th[t].pc = "co_upd2_r"
    /\ th' = [th EXCEPT ![t].pc = "co_upd2_w",
                        ![t].tmp = balances[SecondAsset(th[t].side)]]
    /\ UNCHANGED sysVars
    /\ UNCHANGED <<flag, ledgerVars, file, ncalls, obs, lastReturned, cmdlog>>

\* Line 206 / 210, the store.
SecondUpdateWrite(t) ==
    /\ th[t].pc = "co_upd2_w"
    /\ balances' = [balances EXCEPT ![SecondAsset(th[t].side)] =
                      SecondUpdate(th[t].side, th[t].tmp, th[t].amount, th[t].cost)]
    /\ th' = [th EXCEPT ![t].pc = "co_id", ![t].tmp = 0]
    /\ UNCHANGED sysVars
    /\ UNCHANGED <<flag, order_history, order_id_counter, file, ncalls, obs,
                   lastReturned, cmdlog>>

\* Line 213: order_id = f"PAPER_{self._order_id_counter}".
TakeOrderId(t) ==
    /\ th[t].pc = "co_id"
    /\ th' = [th EXCEPT ![t].pc = "co_inc_r", ![t].oid = order_id_counter]
    /\ UNCHANGED sysVars
    /\ UNCHANGED <<flag, ledgerVars, file, ncalls, obs, lastReturned, cmdlog>>

\* Line 214: self._order_id_counter += 1, the load.
CounterRead(t) ==
    /\ th[t].pc = "co_inc_r"
    /\ th' = [th EXCEPT ![t].pc = "co_inc_w", ![t].tmp = order_id_counter]
    /\ UNCHANGED sysVars
    /\ UNCHANGED <<flag, ledgerVars, file, ncalls, obs, lastReturned, cmdlog>>

\* Line 214, the store.
CounterWrite(t) ==
    /\ th[t].pc = "co_inc_w"
    /\ order_id_counter' = th[t].tmp + 1
    /\ th' = [th EXCEPT ![t].pc = "co_append", ![t].tmp = 0]
    /\ UNCHANGED sysVars
    /\ UNCHANGED <<flag, balances, order_history, file, ncalls, obs,
                   lastReturned, cmdlog>>

\* Line 230: self.order_history.append(order).
AppendOrder(t) ==
    /\ th[t].pc = "co_append"
    /\ order_history' = Append(order_history, OrderRecord(th[t]))
    /\ th' = [th EXCEPT ![t].pc = "sv_open"]
    /\ UNCHANGED sysVars
    /\ UNCHANGED <<flag, balances, order_id_counter, file, ncalls, obs,
                   lastReturned, cmdlog>>


\* ------------------------------------------- PaperExchange._save_state
\* Outcomes of one file-system call: it succeeds, or it raises.
IoOutcomes(faults) == IF faults THEN {TRUE, FALSE} ELSE {TRUE}

\* Lines 92-102: makedirs and open(ledger_file, 'w').  A successful open
\* truncates the file; a failure leaves it as it was.
OpenForWrite(f, ok) == IF ok THEN [kind |-> "partial"] ELSE f

\* Line 103: json.dump of the in-memory state into the opened file.  A failed
\* write leaves the truncated / partly written file behind.
WriteDump(f, l, ok) == IF ok THEN DumpState(l) ELSE f

\* create_order's return (line 239) into place_order's success record
\* (lines 224-232).
ReturnOrder(r) == AfterPlaceOrder(r, "success")

\* _save_state up to the open.  The except at line 105 swallows a failure and
\* create_order goes on to return the order.
SaveOpen(t, faults) ==
    /\ th[t].pc = "sv_open"
    /\ \E ok \in IoOutcomes(faults) :
         /\ file' = OpenForWrite(file, ok)
         /\ th' = [th EXCEPT ![t] = IF ok THEN [th[t] EXCEPT !.pc = "sv_write"]
                                    ELSE ReturnOrder(th[t])]
         /\ lastReturned' = IF ok THEN lastReturned ELSE MemLedger
    /\ UNCHANGED sysVars
    /\ UNCHANGED <<flag, ledgerVars, ncalls, obs, cmdlog>>

\* The dump, then create_order returns the order.
SaveWrite(t, faults) ==
    /\ th[t].pc = "sv_write"
    /\ \E ok \in IoOutcomes(faults) :
         file' = WriteDump(file, MemLedger, ok)
    /\ th' = [th EXCEPT ![t] = ReturnOrder(th[t])]
    /\ lastReturned' = MemLedger
    /\ UNCHANGED sysVars
    /\ UNCHANGED <<flag, ledgerVars, ncalls, obs, cmdlog>>

\* fetch_balance (lines 115-121): a copy of the balances as they are now.
\* obs notes whether, at that moment, the order log accounts for the
\* balances seen and whether the file on disk reloads to the ledger seen.
FetchBalance ==
    /\ obs' = [seen |-> TRUE,
               logged |-> (balances = ReplayBalances(order_history)),
               saved |-> (LoadState(file) = MemLedger)]
    /\ UNCHANGED sysVars
    /\ UNCHANGED <<flag, ledgerVars, file, th, ncalls, lastReturned, cmdlog>>

\* The process dies (at any point, also between the open and the dump) and
\* is started again: PaperExchange.__init__ sets the defaults and
\* _load_state reads the file.  The redis key outlives the process.
Restart ==
    /\ balances' = LoadState(file).balances
    /\ order_history' = LoadState(file).order_history
    /\ order_id_counter' = LoadState(file).order_id_counter
    /\ th' = [t \in Threads |-> IdleThread]
    /\ lastReturned' = LoadState(file)
    /\ obs' = [seen |-> FALSE, logged |-> TRUE, saved |-> TRUE]
    /\ UNCHANGED sysVars
    /\ UNCHANGED <<flag, file, ncalls, cmdlog>>

\* PaperExchange.reset (lines 321-324): the defaults are put back and the
\* snapshot is written.
Reset ==
    /\ balances' = DefaultLedger.balances
    /\ order_history' = DefaultLedger.order_history
    /\ order_id_counter' = DefaultLedger.order_id_counter
    /\ file' = WriteDump(OpenForWrite(file, TRUE), DefaultLedger, TRUE)
    /\ lastReturned' = DefaultLedger
    /\ UNCHANGED sysVars
    /\ UNCHANGED <<flag, th, ncalls, obs, cmdlog>>

\* Steps of a thread inside place_order / create_order, statement by
\* statement.
GatewayStep(t, faults) ==
    \/ PlaceOrderGates(t)
    \/ CreateOrderCheck(t)
    \/ FirstUpdateRead(t)
    \/ FirstUpdateWrite(t)
    \/ SecondUpdateRead(t)
    \/ SecondUpdateWrite(t)
    \/ TakeOrderId(t)
    \/ CounterRead(t)
    \/ CounterWrite(t)
    \/ AppendOrder(t)
    \/ SaveOpen(t, faults)
    \/ SaveWrite(t, faults)
    \/ Return(t)

\* create_order run by one thread with no other thread inside the gateway
\* and no file-system failure: lines 203-233 applied to ledger l for the
\* call whose locals are r.
CommitOrder(l, r) ==
    LET b1 == [l.balances EXCEPT ![FirstAsset(r.side)] =
                 FirstUpdate(r.side, l.balances[FirstAsset(r.side)], r.amount, r.cost)]
        b2 == [b1 EXCEPT ![SecondAsset(r.side)] =
                 SecondUpdate(r.side, b1[SecondAsset(r.side)], r.amount, r.cost)]
        o == OrderRecord([r EXCEPT !.oid = l.order_id_counter])
    IN Ledger(b2, Append(l.order_history, o), l.order_id_counter + 1)

\* The whole of create_order as one step (used where the gateway's own
\* statements are not what interleaves).
CreateOrderWhole(t) ==
    /\ th[t].pc = "co_check"
    /\ \E sourceOk \in BOOLEAN :
         LET r == CheckStep(ResolvePrice(th[t], sourceOk), balances,
                                             FetchTicker(sourceOk))
             l == CommitOrder(MemLedger, r)
         IN IF r.pc # "co_upd1_r"
            THEN /\ th' = [th EXCEPT ![t] = r]
                 /\ UNCHANGED <<ledgerVars, file, lastReturned>>
            ELSE /\ balances' = l.balances
                 /\ order_history' = l.order_history
                 /\ order_id_counter' = l.order_id_counter
                 /\ file' = WriteDump(OpenForWrite(file, TRUE), l, TRUE)
                 /\ lastReturned' = l
                 /\ th' = [th EXCEPT ![t] =
                            ReturnOrder([r EXCEPT !.oid = order_id_counter])]
    /\ UNCHANGED sysVars
    /\ UNCHANGED <<flag, ncalls, obs, cmdlog>>

AllIdle == \A t \in Threads : th[t].pc = "idle"

\* ------------------------------------------------- live (ccxt) gateway
\* What exchange.create_order can do when the executor holds a ccxt
\* exchange: answer with an order, answer with a response that has no 'id',
\* or raise.
VenueOutcomes ==
    {"order", "no_id", "NetworkError", "RequestTimeout", "InsufficientFunds"}

\* Ids the venue gives its orders.
VenueOrderIds == {11, 12}

\* Lines 204-241 against the live gateway: the create_order call and what
\* place_order makes of its outcome.  order['id'] on a response without an
\* id raises KeyError inside the same try.
VenueStep(r, outcome, id) ==
    LET in == [r EXCEPT !.gw = @ + 1, !.sentWhileOff = (Lower(flag) = "false")]
    IN IF outcome = "order"
       THEN ReturnOrder([in EXCEPT !.oid = id])
       ELSE AfterPlaceOrder(in, PlaceOrderExcept(
                IF outcome = "no_id" THEN "KeyError" ELSE outcome))

VenueCreateOrder(t) ==
    /\ th[t].pc = "co_check"
    /\ \E outcome \in VenueOutcomes, id \in VenueOrderIds :
         th' = [th EXCEPT ![t] = VenueStep(th[t], outcome, id)]
    /\ UNCHANGED sysVars
    /\ UNCHANGED <<flag, ledgerVars, file, ncalls, obs, lastReturned, cmdlog>>

\* ------------------------------------------ TradeExecutor.execute_strategy
SignalLists ==
    UNION {[1..n -> SignalSet] : n \in 0..MaxSignals}

\* A signal dict without its 'amount' key.
NoAmount == -1
MalformedSignal ==
    [action |-> "buy", price |-> 3, amount |-> NoAmount, features |-> NoFeatures]

\* Signal lists that may hold a malformed signal.
TickSignalSet ==
    {MalformedSignal,
     [action |-> "buy", price |-> 3, amount |-> 1, features |-> 50],
     [action |-> "buy", price |-> 3, amount |-> 2, features |-> NoFeatures],
     [action |-> "sell", price |-> NoPrice, amount |-> 1, features |-> 50]}
TickSignalLists ==
    UNION {[1..n -> TickSignalSet] : n \in 0..MaxSignals}

\* Lines 509-513: signal['amount'] raises KeyError.
Malformed(sig) == sig.amount = NoAmount

\* execute_strategy's use_ml_filter: the default, which no caller overrides.
UseMlFilter == TRUE

\* SignalPredictor.predict_proba, in percent: 0.5 when the model is not
\* loaded, else what the model gives the features.
DisabledProba == 50
PredictProba(enabled, features) == IF ~enabled THEN DisabledProba ELSE features

\* should_trade for probabilities strictly above the threshold only.
ShouldTradeStrict(proba, min_probability) == proba > min_probability

\* get_prediction_with_details' should_trade.
ShouldTrade(proba, min_probability) == proba >= min_probability

\* SignalPredictor.min_probability as __init__ leaves it, in percent.
MinProbability == 60

\* set_threshold: a threshold outside [0, 1] raises (execute_strategy logs
\* it and goes on) and leaves min_probability as it was.
SetThreshold(min_probability, threshold) ==
    IF 0 <= threshold /\ threshold <= 100 THEN threshold ELSE min_probability

\* ml_threshold values a caller passes, in percent.
MlThresholds == {60, 70, 80}

\* Lines 516-534: the ML filter rejects the signal.  The predictor is
\* consulted only when ml_predictor.is_enabled.
MlFiltered(sig, mlOn, threshold) ==
    /\ sig.action = "buy"
    /\ UseMlFilter /\ mlOn
    /\ sig.features # NoFeatures
    /\ ~ShouldTrade(PredictProba(mlOn, sig.features), threshold)

\* The scan job calls execute_strategy.  mlOn: the predictor was obtained
\* and its model is loaded (ml_predictor.is_enabled).
CallExecuteStrategy(t) ==
    /\ th[t].pc = "idle"
    /\ ncalls < MaxTicks
    /\ \E signals \in SignalLists, panic_score \in TickPanicScores, mlOn \in BOOLEAN :
         th' = [th EXCEPT ![t] =
                  [IdleThread EXCEPT !.pc = "es_entry", !.outer = "strategy",
                                     !.signals = signals, !.spanic = panic_score,
                                     !.mlOn = mlOn]]
    /\ ncalls' = ncalls + 1
    /\ UNCHANGED sysVars
    /\ UNCHANGED <<flag, ledgerVars, file, obs, lastReturned, cmdlog>>

\* execute_strategy called with an ml_threshold of the caller's choosing
\* (lines 492-502: the predictor takes it over when its model is loaded).
CallExecuteStrategyWith(t) ==
    /\ th[t].pc = "idle"
    /\ ncalls < MaxTicks
    /\ \E signals \in SignalLists, ml_threshold \in MlThresholds, mlOn \in BOOLEAN :
         th' = [th EXCEPT ![t] =
                  [IdleThread EXCEPT !.pc = "es_entry", !.outer = "strategy",
                                     !.signals = signals, !.mlOn = mlOn,
                                     !.mlThreshold =
                                         IF mlOn
                                         THEN SetThreshold(MinProbability, ml_threshold)
                                         ELSE MinProbability]]
    /\ ncalls' = ncalls + 1
    /\ UNCHANGED sysVars
    /\ UNCHANGED <<flag, ledgerVars, file, obs, lastReturned, cmdlog>>

\* execute_strategy called with a list that may hold a malformed signal;
\* input keeps the list as it was passed.
CallExecuteStrategyTick(t) ==
    /\ th[t].pc = "idle"
    /\ ncalls < MaxTicks
    /\ \E signals \in TickSignalLists, panic_score \in TickPanicScores,
          mlOn \in BOOLEAN :
         th' = [th EXCEPT ![t] =
                  [IdleThread EXCEPT !.pc = "es_entry", !.outer = "strategy",
                                     !.signals = signals, !.input = signals,
                                     !.spanic = panic_score, !.mlOn = mlOn]]
    /\ ncalls' = ncalls + 1
    /\ UNCHANGED sysVars
    /\ UNCHANGED <<flag, ledgerVars, file, obs, lastReturned, cmdlog>>

\* The entry check that logs the suspension and goes on.
StrategyEntryNoReturn(r, readOk, value) ==
    [r EXCEPT !.entryRead = IF readOk THEN value ELSE "error", !.pc = "es_loop"]

\* Lines 478-488: the kill-switch check at entry; 'false' returns [].
StrategyEntryStep(r, readOk, value) ==
    LET seen == [r EXCEPT !.entryRead = IF readOk THEN value ELSE "error"] IN
    IF KillSwitch(readOk, value) = "TradingSuspended"
    THEN [seen EXCEPT !.pc = "done", !.results = <<>>]
    ELSE [seen EXCEPT !.pc = "es_loop"]

StrategyEntry(t) ==
    /\ th[t].pc = "es_entry"
    /\ \E readOk \in BOOLEAN :
         th' = [th EXCEPT ![t] = StrategyEntryStep(th[t], readOk, flag)]
    /\ UNCHANGED sysVars
    /\ UNCHANGED <<flag, ledgerVars, file, ncalls, obs, lastReturned, cmdlog>>

\* The loop without its try: the KeyError of a malformed signal leaves
\* execute_strategy, with the signals after it untouched.
StrategyLoopStepRaise(r) ==
    IF r.signals = <<>>
    THEN [r EXCEPT !.pc = "done"]
    ELSE LET sig == Head(r.signals) IN
         IF Malformed(sig)
         THEN [r EXCEPT !.pc = "done", !.signals = <<>>]
         ELSE IF MlFiltered(sig, r.mlOn, r.mlThreshold)
         THEN [r EXCEPT !.results = Append(@, "filtered"), !.signals = Tail(@)]
         ELSE EnterPlaceOrder(r, sig.action, sig.amount, sig.price,
                              IF sig.price # NoPrice THEN "limit" ELSE "market",
                              r.spanic)

\* Lines 507-565 for the next signal, and line 571 when none is left.  A
\* signal whose keys cannot be read raises inside the try and becomes an
\* error record (lines 559-565).
StrategyLoopStep(r) ==
    IF r.signals = <<>>
    THEN [r EXCEPT !.pc = "done"]
    ELSE LET sig == Head(r.signals) IN
         IF Malformed(sig)
         THEN [r EXCEPT !.results = Append(@, "error"), !.signals = Tail(@)]
         ELSE IF MlFiltered(sig, r.mlOn, r.mlThreshold)
         THEN [r EXCEPT !.results = Append(@, "filtered"), !.signals = Tail(@)]
         ELSE EnterPlaceOrder(r, sig.action, sig.amount, sig.price,
                              IF sig.price # NoPrice THEN "limit" ELSE "market",
                              r.spanic)

StrategyLoop(t) ==
    /\ th[t].pc = "es_loop"
    /\ th' = [th EXCEPT ![t] = StrategyLoopStep(th[t])]
    /\ UNCHANGED sysVars
    /\ UNCHANGED <<flag, ledgerVars, file, ncalls, obs, lastReturned, cmdlog>>

\* --------------------------------------- TradeExecutor.close_all_positions
\* dict.get(key, default) on a mapping given as a function.
Get(d, key, default) == IF key \in DOMAIN d THEN d[key] ELSE default

\* A finite set as a sequence, in some order (the order a dict is iterated in).
RECURSIVE SeqOf(_)
SeqOf(S) ==
    IF S = {} THEN <<>>
    ELSE LET x == CHOOSE y \in S : TRUE IN <<x>> \o SeqOf(S \ {x})

\* PaperExchange.fetch_balance: what the call returns for balances b.  An
\* asset the dict does not hold (balance 0 here) has no key.
FetchBalanceResult(b) ==
    LET held == [a \in {x \in Assets : x = Quote \/ b[x] # 0} |-> b[a]]
    IN [free |-> held, used |-> <<>>, total |-> held]

\* get_open_positions, lines 355-364: the positions derived from the value
\* fetch_balance returned, one for each key other than 'USDT' whose value has
\* a 'total' above 0.
PositionsFromBalance(balance) ==
    SeqOf({[symbol |-> asset, contracts |-> balance[asset]["total"]] :
             asset \in {k \in DOMAIN balance :
                          k # "USDT" /\ Get(balance[k], "total", 0) > 0}})

\* Position records a venue's fetch_positions can answer with; symbol "none"
\* is a record that has no 'symbol' key.
PositionSet ==
    {[symbol |-> "BTC/USDT", contracts |-> 1],
     [symbol |-> "BTC/USDT", contracts |-> 0],
     [symbol |-> "none", contracts |-> 2]}

MaxPositions == 2

PositionLists == UNION {[1..n -> PositionSet] : n \in 0..MaxPositions}

\* get_open_positions, lines 350-352 and 366-368: fetch_positions' answer
\* with the records of no contracts dropped, or [] when the call raises.
PositionsFromVenue(ok, ps) ==
    IF ok THEN SelectSeq(ps, LAMBDA p : p.contracts > 0) ELSE <<>>

\* The panic path calls close_all_positions.
CallCloseAll(t) ==
    /\ th[t].pc = "idle"
    /\ ncalls < MaxCalls
    /\ th' = [th EXCEPT ![t] =
                [IdleThread EXCEPT !.pc = "ca_entry", !.outer = "close",
                     !.held = Cardinality({a \in Assets \ {Quote} : balances[a] > 0})]]
    /\ ncalls' = ncalls + 1
    /\ UNCHANGED sysVars
    /\ UNCHANGED <<flag, ledgerVars, file, obs, lastReturned, cmdlog>>

\* Line 582 on the simulated gateway (no fetch_positions attribute).
PaperPositions(t) ==
    /\ th[t].pc = "ca_entry"
    /\ th' = [th EXCEPT ![t].pc = "ca_loop",
                        ![t].positions =
                            PositionsFromBalance(FetchBalanceResult(balances))]
    /\ UNCHANGED sysVars
    /\ UNCHANGED <<flag, ledgerVars, file, ncalls, obs, lastReturned, cmdlog>>

\* Line 582 on the live gateway.
VenuePositions(t) ==
    /\ th[t].pc = "ca_entry"
    /\ \E ok \in BOOLEAN, ps \in PositionLists :
         th' = [th EXCEPT ![t].pc = "ca_loop",
                          ![t].positions = PositionsFromVenue(ok, ps),
                          ![t].held = Len(PositionsFromVenue(ok, ps))]
    /\ UNCHANGED sysVars
    /\ UNCHANGED <<flag, ledgerVars, file, ncalls, obs, lastReturned, cmdlog>>

\* Lines 615-622: the handler formats symbol and amount.  When the
\* exception came before the first assignment to symbol, reading it raises
\* UnboundLocalError out of the handler and out of close_all_positions.
CloseExcept(r) ==
    IF r.symbol = "unbound"
    THEN [r EXCEPT !.pc = "done", !.ret = "raised", !.positions = <<>>,
                   !.results = <<>>]
    ELSE [r EXCEPT !.results = Append(@, "error"), !.positions = Tail(@)]

\* Lines 585-605 for the next position, and lines 585-587 / 626 when none
\* is left.
CloseLoopStep(r) ==
    IF r.positions = <<>>
    THEN [r EXCEPT !.pc = "done", !.ret = "returned"]
    ELSE LET position == Head(r.positions) IN
         IF position.symbol = "none"
         THEN CloseExcept(r)
         ELSE IF position.contracts <= 0
              THEN [r EXCEPT !.symbol = position.symbol, !.positions = Tail(@)]
              ELSE EnterPlaceOrder([r EXCEPT !.symbol = position.symbol],
                                   "sell", position.contracts, NoPrice,
                                   "market", NoPanic)

CloseLoop(t) ==
    /\ th[t].pc = "ca_loop"
    /\ th' = [th EXCEPT ![t] = CloseLoopStep(th[t])]
    /\ UNCHANGED sysVars
    /\ UNCHANGED <<flag, ledgerVars, file, ncalls, obs, lastReturned, cmdlog>>

\* ------------------------------------------ TradeExecutor.monitor_positions
\* __init__'s stop_loss_percent = 0.05 and take_profit_min = 0.10, in percent.
StopLossPercent == 5
TakeProfitMin == 10

\* None for a position's entryPrice.
NoEntry == 0

\* should_stop_loss at a price strictly below the stop only.
ShouldStopLossStrict(entry_price, current_price) ==
    current_price * 100 < entry_price * (100 - StopLossPercent)

\* should_stop_loss: current_price <= entry_price * (1 - stop_loss_percent).
ShouldStopLoss(entry_price, current_price) ==
    current_price * 100 <= entry_price * (100 - StopLossPercent)

\* should_take_profit: current_price >= entry_price * (1 + take_profit_min).
ShouldTakeProfit(entry_price, current_price) ==
    current_price * 100 >= entry_price * (100 + TakeProfitMin)

\* Positions a venue reports to the monitor, with and without entryPrice.
MonitorPositionSet ==
    {[symbol |-> "BTC/USDT", contracts |-> 1, entryPrice |-> 20],
     [symbol |-> "BTC/USDT", contracts |-> 2, entryPrice |-> NoEntry]}

MonitorPositionLists ==
    UNION {[1..n -> MonitorPositionSet] : n \in 0..MaxPositions}

\* ticker['last'] values: at the stop (19), between, and at the target (22).
LastPrices == {19, 20, 21, 22}

\* The monitor job calls monitor_positions.
CallMonitor(t) ==
    /\ th[t].pc = "idle"
    /\ ncalls < MaxTicks
    /\ th' = [th EXCEPT ![t] =
                [IdleThread EXCEPT !.pc = "mo_entry", !.outer = "monitor"]]
    /\ ncalls' = ncalls + 1
    /\ UNCHANGED sysVars
    /\ UNCHANGED <<flag, ledgerVars, file, obs, lastReturned, cmdlog>>

\* Line 412 on the live gateway.
MonitorGetPositions(t) ==
    /\ th[t].pc = "mo_entry"
    /\ \E ok \in BOOLEAN, ps \in MonitorPositionLists :
         th' = [th EXCEPT ![t].pc = "mo_loop",
                          ![t].positions = PositionsFromVenue(ok, ps),
                          ![t].held = Len(PositionsFromVenue(ok, ps))]
    /\ UNCHANGED sysVars
    /\ UNCHANGED <<flag, ledgerVars, file, ncalls, obs, lastReturned, cmdlog>>

\* close_position (lines 387-394): a market sell of the position's amount.
ClosePosition(r, amount, reason, current_price) ==
    EnterPlaceOrder([r EXCEPT !.reason = reason, !.last = current_price],
                    "sell", amount, NoPrice, "market", NoPanic)

\* Lines 414-447 for the next position, and line 449 when none is left.
\* tickerOk: fetch_ticker answered; otherwise the loop's except logs it.
MonitorLoopStep(r, tickerOk, current_price) ==
    IF r.positions = <<>>
    THEN [r EXCEPT !.pc = "done", !.ret = "returned", !.last = 0]
    ELSE LET position == Head(r.positions) IN
         IF position.entryPrice = NoEntry \/ ~tickerOk
         THEN [r EXCEPT !.positions = Tail(@), !.last = 0]
         ELSE IF ShouldStopLoss(position.entryPrice, current_price)
              THEN ClosePosition(r, position.contracts, "stop_loss", current_price)
         ELSE IF ShouldTakeProfit(position.entryPrice, current_price)
              THEN ClosePosition(r, position.contracts, "take_profit", current_price)
         ELSE [r EXCEPT !.positions = Tail(@), !.last = current_price]

MonitorLoop(t) ==
    /\ th[t].pc = "mo_loop"
    /\ \E tickerOk \in BOOLEAN, current_price \in LastPrices :
         th' = [th EXCEPT ![t] = MonitorLoopStep(th[t], tickerOk, current_price)]
    /\ UNCHANGED sysVars
    /\ UNCHANGED <<flag, ledgerVars, file, ncalls, obs, lastReturned, cmdlog>>

\* ------------------------------------- TradeExecutor.calculate_max_position
\* __init__'s max_position_size = 0.3, in tenths.
MaxPositionSize == 3

\* A live venue's fetch_balance for a free quote balance: keyed by asset and,
\* as ccxt also gives it, by 'free', 'used' and 'total'.
VenueBalanceResult(free) ==
    [USDT |-> [free |-> free, used |-> 0, total |-> free],
     free |-> [USDT |-> free], used |-> [USDT |-> 0], total |-> [USDT |-> free]]

\* Free quote balances of a live venue, and the prices a position is sized at
\* (0: the division of line 328 raises and line 340 returns 0.0).
VenueFree == {0, 4, 10}
SizingPrices == {0, 1, 3}

\* Lines 322-340 on the value fetch_balance returned, in tenths of a unit:
\* balance.get('USDT', {}).get('free', 0) * max_position_size / price, and
\* 0.0 when anything raised.
CalculateMaxPosition(ok, balance, price) ==
    IF ~ok \/ price = 0 THEN 0
    ELSE LET usdt_balance == Get(Get(balance, "USDT", <<>>), "free", 0)
         IN (usdt_balance * MaxPositionSize) \div price

\* calculate_max_position called on an executor holding either gateway.
CallCalculateMaxPosition(t) ==
    /\ th[t].pc = "idle"
    /\ \E price \in SizingPrices :
         \/ th' = [th EXCEPT ![t] =
                [IdleThread EXCEPT
                   !.pc = "done", !.outer = "sizing", !.ret = "returned",
                   !.sizing = [gateway |-> "paper", free |-> balances[Quote],
                               price |-> price,
                               result |-> CalculateMaxPosition(
                                   TRUE, FetchBalanceResult(balances), price)]]]
         \/ \E free \in VenueFree, ok \in BOOLEAN :
              th' = [th EXCEPT ![t] =
                [IdleThread EXCEPT
                   !.pc = "done", !.outer = "sizing", !.ret = "returned",
                   !.sizing = [gateway |-> IF ok THEN "live" ELSE "live_failed",
                               free |-> free, price |-> price,
                               result |-> CalculateMaxPosition(
                                   ok, VenueBalanceResult(free), price)]]]
    /\ UNCHANGED sysVars
    /\ UNCHANGED <<flag, ledgerVars, file, ncalls, obs, lastReturned, cmdlog>>

\* ------------------------------------------------------------- Scheduler
\* job_defaults' max_instances.
MaxInstances == 1

\* Registrations in one run, and the seconds the clock covers.
MaxAdds == 2
Horizon == 5

\* interval triggers' seconds, the seconds a job body takes, and the period
\* of a cron(second=...) trigger.
IntervalSeconds == {1, 2}
BodyTimes == {2, 3}
CronPeriod == 60

\* The store's add_job for a job whose id the store may hold already:
\* replace_existing updates the stored job, otherwise ConflictingIdError.
RealAddJob(s, id, job, replace) ==
    IF s.jobs[id] # NoJob /\ ~replace
    THEN [s EXCEPT !.lastAdd = "raised"]
    ELSE [s EXCEPT !.jobs[id] =
                      [job EXCEPT !.next = s.now + (IF job.interval = CronPeriod
                                                    THEN job.next
                                                    ELSE job.interval)],
                   !.lastAdd = "ok"]

\* Scheduler.add_job: the job goes to the store when the scheduler runs, and
\* waits in the pending list otherwise.
AddJobStep(s, id, job, replace) ==
    IF s.state = "running"
    THEN [RealAddJob(s, id, job, replace) EXCEPT !.adds = @ + 1]
    ELSE [s EXCEPT !.pending = Append(@, [id |-> id, job |-> job,
                                           replace |-> replace]),
                   !.lastAdd = "ok", !.adds = @ + 1]

\* add_job(func, 'interval', seconds=..., id=...), with or without
\* replace_existing=True.
AddJob ==
    /\ sched.adds < MaxAdds
    /\ sched.shut # "waiting"
    /\ \E interval \in IntervalSeconds, body \in BodyTimes, replace \in BOOLEAN :
         sched' = AddJobStep(sched, "test_job",
                             [ver |-> sched.adds + 1, interval |-> interval,
                              body |-> body, next |-> 0], replace)
    /\ UNCHANGED <<coreVars, db, pred, calc, boot>>

\* setup_market_data_jobs: cron(second=5) with replace_existing=True; the
\* minute's fifth second comes offset seconds from now.
SetupMarketDataJobs ==
    /\ sched.adds < MaxAdds
    /\ sched.shut # "waiting"
    /\ \E offset \in 1..2, body \in BodyTimes :
         sched' = AddJobStep(sched, "job_update_market_data",
                             [ver |-> sched.adds + 1, interval |-> CronPeriod,
                              body |-> body, next |-> offset], TRUE)
    /\ UNCHANGED <<coreVars, db, pred, calc, boot>>

\* The pending jobs go to the store in order; the first conflict raises out
\* of start() and leaves the scheduler stopped.
RECURSIVE AddPending(_, _)
AddPending(s, pending) ==
    IF pending = <<>> THEN [s EXCEPT !.pending = <<>>, !.lastAdd = "ok"]
    ELSE LET e == Head(pending)
             s1 == RealAddJob(s, e.id, e.job, e.replace)
         IN IF s1.lastAdd = "raised" THEN s1
            ELSE AddPending(s1, Tail(pending))

\* Scheduler.start.
SchedulerStart ==
    /\ sched.shut # "waiting"
    /\ sched.state # "running"
    /\ LET s1 == AddPending([sched EXCEPT !.lastAdd = "ok"], sched.pending)
       IN sched' = IF s1.lastAdd = "raised"
                   THEN [s1 EXCEPT !.lastAdd = sched.lastAdd,
                                   !.lastStart = "raised"]
                   ELSE [s1 EXCEPT !.lastAdd = sched.lastAdd,
                                   !.lastStart = "ok", !.state = "running",
                                   !.shut = "no", !.atCall = 0]
    /\ UNCHANGED <<coreVars, db, pred, calc, boot>>

\* The executor's submit with no limit on a job's running instances.
CanSubmitUnlimited(s, id) == TRUE

\* The executor's submit: refused while the job has max_instances running.
CanSubmit(s, id) == s.inst[id] < MaxInstances

\* A due firing of a job: its body starts on a pool thread, unless the pool
\* has been shut down or the executor refuses the submit; either way the
\* trigger moves to its next time.
Fire(id) ==
    /\ sched.state = "running"
    /\ sched.jobs[id] # NoJob
    /\ sched.jobs[id].next <= sched.now
    /\ LET job == sched.jobs[id]
           s1 == [sched EXCEPT !.jobs[id].next = @ + job.interval]
       IN sched' = IF ~sched.poolShut /\ CanSubmit(sched, id)
                   THEN [s1 EXCEPT !.inst[id] = @ + 1, !.left[id] = job.body,
                                   !.starts[id] = @ + 1]
                   ELSE s1
    /\ UNCHANGED <<coreVars, db, pred, calc, boot>>

\* A job body returns.
Finish(id) ==
    /\ sched.inst[id] > 0
    /\ sched.left[id] = 0
    /\ sched' = [sched EXCEPT !.inst[id] = @ - 1]
    /\ UNCHANGED <<coreVars, db, pred, calc, boot>>

\* A second passes; the scheduler thread has handled every due firing.
Tick ==
    /\ sched.now < Horizon
    /\ sched.state = "running"
         => \A id \in JobIds :
               sched.jobs[id] # NoJob => sched.jobs[id].next > sched.now
    /\ sched' = [sched EXCEPT
                   !.now = @ + 1,
                   !.left = [id \in JobIds |-> IF @[id] > 0 THEN @[id] - 1 ELSE 0]]
    /\ UNCHANGED <<coreVars, db, pred, calc, boot>>

\* Scheduler.shutdown(wait), lines 68-72: when running, the scheduler stops,
\* the pool is shut down and the store emptied; the call then waits for the
\* pool's threads when wait is true.  When not running, the call logs a
\* warning and returns.
SchedulerShutdown ==
    /\ sched.shut # "waiting"
    /\ \E wait \in BOOLEAN :
         sched' = IF sched.state = "running"
                  THEN [sched EXCEPT
                          !.state = "stopped", !.poolShut = TRUE,
                          !.jobs = [id \in JobIds |-> NoJob],
                          !.shut = IF wait THEN "waiting" ELSE "returned_nowait",
                          !.atCall = IF wait
                                     THEN sched.inst["test_job"]
                                          + sched.inst["job_update_market_data"]
                                     ELSE 0]
                  ELSE [sched EXCEPT
                          !.shut = IF wait THEN "returned" ELSE "returned_nowait",
                          !.atCall = IF wait
                                     THEN sched.inst["test_job"]
                                          + sched.inst["job_update_market_data"]
                                     ELSE 0]
    /\ UNCHANGED <<coreVars, db, pred, calc, boot>>

\* The pool's shutdown(wait=True) has joined every worker thread.
Drained(s) == \A id \in JobIds : s.inst[id] = 0

\* shutdown(wait=True) returns.
ShutdownReturn ==
    /\ sched.shut = "waiting"
    /\ Drained(sched)
    /\ sched' = [sched EXCEPT !.shut = "returned"]
    /\ UNCHANGED <<coreVars, db, pred, calc, boot>>

\* -------------------------------------------------- job_update_market_data
\* Runs of the fetch job.
MaxRuns == 2

\* Bars fetch_latest_ohlcv returns: an open time and the bar's values.
Bars == [ts : {1, 2}, val : {1, 2}]

\* ccxt's answer: bars in the order of their open times, none twice.
Batches ==
    {<<>>} \cup {<<b>> : b \in Bars}
           \cup {<<a, b>> : a \in {x \in Bars : x.ts = 1},
                             b \in {x \in Bars : x.ts = 2}}

\* What the awaited fetch can raise (lines 126-145 tell them apart).
FetchErrors == {"NetworkError", "ExchangeError", "Exception"}

\* The handlers of lines 126-145 with only the network error caught.
JobExceptNetworkOnly(s, exc) ==
    IF exc = "NetworkError"
    THEN [s EXCEPT !.pc = "done", !.result = "returned", !.pending = {},
                   !.data = <<>>, !.rolledBack = TRUE]
    ELSE [s EXCEPT !.pc = "done", !.result = "raised", !.data = <<>>]

\* Lines 126-145: each handler logs and rolls the session back; the
\* coroutine then returns.
JobExcept(s, exc) ==
    [s EXCEPT !.pc = "done", !.result = "returned", !.pending = {},
              !.data = <<>>, !.rolledBack = TRUE]

\* Lines 53-77: the run makes its fetcher (the wrapper passes none), awaits
\* the fetch and branches on its result.
FetchJobStart ==
    /\ db.pc = "idle"
    /\ db.run < MaxRuns
    /\ LET s == [db EXCEPT !.run = @ + 1, !.before = db.rows,
                           !.failure = "none", !.result = "none",
                           !.rolledBack = FALSE, !.committed = FALSE,
                           !.pending = {}, !.fetcher = "open"]
       IN \/ \E batch \in Batches :
               db' = [s EXCEPT !.batch = batch, !.data = batch,
                               !.pc = IF batch = <<>> THEN "commit_empty"
                                      ELSE "loop"]
          \/ \E exc \in FetchErrors :
               db' = JobExcept([s EXCEPT !.batch = <<>>, !.failure = "fetch"],
                               exc)
    /\ UNCHANGED <<coreVars, sched, pred, calc, boot>>

\* Lines 84-101 storing the fetched values over a row that exists.
AddRowOverwrite(s, bar) ==
    [s EXCEPT !.pending = @ \cup {bar}]

\* Lines 84-101: a record is added unless a row of the symbol, timestamp
\* and timeframe exists.
AddRow(s, bar) ==
    IF \E r \in s.rows : r.ts = bar.ts
    THEN s
    ELSE [s EXCEPT !.pending = @ \cup {bar}]

\* Lines 81-105 for one fetched bar; a failing query is logged and the bar
\* left out.
FetchJobRow ==
    /\ db.pc = "loop"
    /\ \E queryOk \in BOOLEAN :
         LET s == IF queryOk THEN AddRow(db, Head(db.data)) ELSE db
         IN db' = [s EXCEPT !.data = Tail(@),
                            !.pc = IF Tail(db.data) = <<>> THEN "commit"
                                   ELSE "loop"]
    /\ UNCHANGED <<coreVars, sched, pred, calc, boot>>

\* The row of a bar under the autoincrement id.
Row(id, bar) == [id |-> id, ts |-> bar.ts, val |-> bar.val]

\* The table after a commit of the pending records: a pending bar whose row
\* exists updates it, any other becomes a new row with the next id.
Committed(rows, pending) ==
    LET inserts == {b \in pending : ~\E r \in rows : r.ts = b.ts}
        idOf(b) == Cardinality(rows)
                     + Cardinality({c \in inserts : c.ts <= b.ts})
    IN {IF \E b \in pending : b.ts = r.ts
        THEN Row(r.id, CHOOSE b \in pending : b.ts = r.ts)
        ELSE r : r \in rows}
         \cup {Row(idOf(b), b) : b \in inserts}

\* Lines 115-123: rollback; an IntegrityError means the unique index found
\* a row another writer stored meanwhile.
CommitExcept(s, exc, other) ==
    [s EXCEPT !.pending = {}, !.rolledBack = TRUE, !.failure = "commit",
              !.rows = IF exc = "IntegrityError"
                       THEN @ \cup {Row(Cardinality(@) + 1, other)}
                       ELSE @]

\* Lines 106-127 and 68-72: commit, then close the fetcher the job made.
\* With no bars the function returns at line 72, before the close of lines
\* 126-127; after the commit block, failed or not, the fetcher is closed.
FetchJobCommit ==
    /\ db.pc \in {"commit", "commit_empty"}
    /\ \/ \E closeOk \in BOOLEAN :
            LET s == [db EXCEPT !.rows = Committed(@, db.pending),
                                !.committed = db.pending # {},
                                !.pending = {}]
            IN db' = IF db.pc = "commit" /\ ~closeOk
                     THEN JobExcept(s, "Exception")
                     ELSE [s EXCEPT !.pc = "done", !.result = "returned",
                                    !.fetcher = IF db.pc = "commit"
                                                THEN "closed" ELSE @]
       \/ /\ db.pc = "commit"
          /\ \E other \in {b \in Bars : \E q \in db.pending : q.ts = b.ts} :
               db' = [CommitExcept(db, "IntegrityError", other) EXCEPT
                        !.pc = "done", !.result = "returned",
                        !.fetcher = "closed"]
       \/ db' = IF db.pc = "commit"
                THEN [CommitExcept(db, "Exception", <<>>) EXCEPT
                        !.pc = "done", !.result = "returned",
                        !.fetcher = "closed"]
                ELSE JobExcept([db EXCEPT !.failure = "commit"], "Exception")
    /\ UNCHANGED <<coreVars, sched, pred, calc, boot>>

\* asyncio.run returns and the wrapper with it.
FetchJobReturn ==
    /\ db.pc = "done"
    /\ db' = [db EXCEPT !.pc = "idle"]
    /\ UNCHANGED <<coreVars, sched, pred, calc, boot>>

\* ------------------------------------------------------- SignalPredictor
\* get_instance calls per thread.
MaxGets == 1

\* get_instance (line 73) calls cls(): __new__, then __init__ on what
\* __new__ returned.
GetInstance(p) ==
    /\ pred.t[p].pc = "idle"
    /\ pred.t[p].calls < MaxGets
    /\ pred' = [pred EXCEPT !.t[p].pc = "new_check", !.t[p].calls = @ + 1,
                            !.t[p].got = 0]
    /\ UNCHANGED <<coreVars, sched, db, calc, boot>>

\* __new__, line 48: the check outside the lock.
NewCheck(p) ==
    /\ pred.t[p].pc = "new_check"
    /\ pred' = [pred EXCEPT !.t[p].pc = IF pred.instance = 0 THEN "new_lock"
                                        ELSE "init_check"]
    /\ UNCHANGED <<coreVars, sched, db, calc, boot>>

\* Line 49: with cls._lock.
NewLock(p) ==
    /\ pred.t[p].pc = "new_lock"
    /\ pred.lock = "free"
    /\ pred' = [pred EXCEPT !.lock = p, !.t[p].pc = "new_check2"]
    /\ UNCHANGED <<coreVars, sched, db, calc, boot>>

\* Lines 50-51: the second check, and cls._instance = super().__new__(cls).
NewCreateStep(s, p) ==
    IF s.instance = 0
    THEN [s EXCEPT !.created = @ + 1, !.instance = s.created + 1,
                   !.initialized = "unset", !.t[p].pc = "new_setinit"]
    ELSE [s EXCEPT !.lock = "free", !.t[p].pc = "init_check"]

NewCreate(p) ==
    /\ pred.t[p].pc = "new_check2"
    /\ pred' = NewCreateStep(pred, p)
    /\ UNCHANGED <<coreVars, sched, db, calc, boot>>

\* Line 52: cls._instance._initialized = False, and the lock is released.
NewSetInitialized(p) ==
    /\ pred.t[p].pc = "new_setinit"
    /\ pred' = [pred EXCEPT !.initialized = "false", !.lock = "free",
                            !.t[p].pc = "init_check"]
    /\ UNCHANGED <<coreVars, sched, db, calc, boot>>

\* __init__, lines 57-58: return when _initialized; reading the attribute
\* before line 52 has set it raises AttributeError.
InitCheckStep(s, p) ==
    IF s.initialized = "true"
    THEN [s EXCEPT !.t[p].pc = "done", !.t[p].got = s.instance]
    ELSE IF s.initialized = "unset"
    THEN [s EXCEPT !.t[p].pc = "raised"]
    ELSE [s EXCEPT !.t[p].pc = "init_reset"]

InitCheck(p) ==
    /\ pred.t[p].pc = "init_check"
    /\ pred' = InitCheckStep(pred, p)
    /\ UNCHANGED <<coreVars, sched, db, calc, boot>>

\* Lines 60-64: the fields are reset, enabled to False.
InitReset(p) ==
    /\ pred.t[p].pc = "init_reset"
    /\ pred' = [pred EXCEPT !.enabled = FALSE, !.inits = @ + 1,
                            !.t[p].pc = "init_load"]
    /\ UNCHANGED <<coreVars, sched, db, calc, boot>>

\* Line 67, _load_model: enabled becomes True when the model file loads.
InitLoad(p) ==
    /\ pred.t[p].pc = "init_load"
    /\ \E loaded \in BOOLEAN :
         pred' = [pred EXCEPT !.enabled = IF loaded THEN TRUE ELSE @,
                              !.t[p].pc = "init_done"]
    /\ UNCHANGED <<coreVars, sched, db, calc, boot>>

\* Line 68: _initialized = True, and cls() returns the instance.
InitDone(p) ==
    /\ pred.t[p].pc = "init_done"
    /\ pred' = [pred EXCEPT !.initialized = "true", !.t[p].pc = "done",
                            !.t[p].got = pred.instance]
    /\ UNCHANGED <<coreVars, sched, db, calc, boot>>

\* The caller goes on with what it got.
PredictorReturn(p) ==
    /\ pred.t[p].pc \in {"done", "raised"}
    /\ pred' = [pred EXCEPT !.t[p].pc = "idle"]
    /\ UNCHANGED <<coreVars, sched, db, calc, boot>>

\* ------------------------------------- SignalPredictor: loading the model
\* _load_model and predict_proba calls in one run.
MaxLoads == 3
MaxPredicts == 2

\* How _load_model can end: the bundle loads, the file does not exist, or
\* reading it raises.
LoadOutcomes == {"ok", "missing", "corrupt"}

\* _load_model, lines 85-112: a missing file returns False and touches
\* nothing; a bundle that loads sets the model and enabled; an exception
\* sets enabled to False.
LoadModelStep(s, outcome, version) ==
    LET s1 == [s EXCEPT !.lastLoad = outcome, !.loads = @ + 1]
    IN IF outcome = "ok" THEN [s1 EXCEPT !.model = version, !.enabled = TRUE]
       ELSE IF outcome = "corrupt" THEN [s1 EXCEPT !.enabled = FALSE]
       ELSE s1

\* Versions of the bundle on disk.
BundleVersions == {1, 2}

\* __init__, lines 60-68, by a single caller.
Construct ==
    /\ pred.loads = 0
    /\ \E outcome \in LoadOutcomes, version \in BundleVersions :
         pred' = [LoadModelStep([pred EXCEPT !.model = 0, !.enabled = FALSE,
                                             !.inits = @ + 1],
                                outcome, version)
                    EXCEPT !.instance = 1, !.created = 1, !.initialized = "true"]
    /\ UNCHANGED <<coreVars, sched, db, calc, boot>>

\* reload_model going straight to _load_model.
ReloadModelStepNoReset(s, outcome, version) ==
    LoadModelStep(s, outcome, version)

\* reload_model, lines 115-118: enabled = False, then _load_model.
ReloadModelStep(s, outcome, version) ==
    LoadModelStep([s EXCEPT !.enabled = FALSE], outcome, version)

ReloadModel ==
    /\ pred.loads > 0
    /\ pred.loads < MaxLoads
    /\ \E outcome \in LoadOutcomes, version \in BundleVersions :
         pred' = ReloadModelStep(pred, outcome, version)
    /\ UNCHANGED <<coreVars, sched, db, calc, boot>>

\* Probabilities a loaded model gives, in percent.
ModelProbas == {30, 60, 70}

\* predict_proba, lines 136-163: 0.5 when not enabled or without a model,
\* 0.5 when the prediction raises, else the model's probability.
PredictProbaStep(s, features, predictOk) ==
    IF s.model = 0 \/ ~predictOk THEN DisabledProba
    ELSE PredictProba(s.enabled, features)

PredictProbaCall ==
    /\ pred.loads > 0
    /\ pred.preds < MaxPredicts
    /\ \E features \in ModelProbas, predictOk \in BOOLEAN :
         pred' = [pred EXCEPT !.proba = PredictProbaStep(pred, features, predictOk),
                              !.preds = @ + 1]
    /\ UNCHANGED <<coreVars, sched, db, calc, boot>>

\* -------------------------------------------------------- KellyCalculator
\* A fraction n/d, d > 0, and the comparisons and products of fractions.
Rat(n, d) == [n |-> n, d |-> d]
RatLt(a, b) == a.n * b.d < b.n * a.d
RatLe(a, b) == a.n * b.d <= b.n * a.d
RatMul(a, b) == Rat(a.n * b.n, a.d * b.d)
RatSub(a, b) == Rat(a.n * b.d - b.n * a.d, a.d * b.d)
RatDiv(a, b) == Rat(a.n * b.d, a.d * b.n)
Zero == Rat(0, 1)
One == Rat(1, 1)

\* What a call that raised ValueError leaves in place of a result.
Raised == Rat(0, 0)

\* np.clip(x, lo, hi): minimum(maximum(x, lo), hi).
Clip(x, lo, hi) ==
    LET m == IF RatLt(x, lo) THEN lo ELSE x
    IN IF RatLt(hi, m) THEN hi ELSE m

\* KellyCalculator(fraction, max_position, min_position) as constructed:
\* full, half and quarter Kelly, with and without position limits.
KellyConfigs ==
    [fraction : {Rat(1, 1), Rat(1, 2), Rat(1, 4)},
     max_position : {Rat(1, 1), Rat(1, 4)},
     min_position : {Rat(0, 1), Rat(1, 2)}]

\* Arguments of calculate: win rates in quarters from -1/4 to 5/4, odds in
\* halves from -1/2 to 3.
WinRates == {Rat(n, 4) : n \in -1..5}
OddsValues == {Rat(n, 2) : n \in {-1, 0, 1, 2, 3, 6}}

\* calculate without the return of lines 83-84.
KellyCalculateNoFloor(k, win_rate, odds) ==
    IF ~(RatLe(Zero, win_rate) /\ RatLe(win_rate, One)) THEN Raised
    ELSE IF RatLt(odds, Zero) THEN Raised
    ELSE IF odds.n = 0 THEN Zero
    ELSE LET lose_rate == RatSub(One, win_rate)
             kelly_value == RatDiv(RatSub(RatMul(win_rate, odds), lose_rate), odds)
             adjusted_kelly == RatMul(kelly_value, k.fraction)
         IN Clip(adjusted_kelly, k.min_position, k.max_position)

\* KellyCalculator.calculate, lines 63-89.
KellyCalculate(k, win_rate, odds) ==
    IF ~(RatLe(Zero, win_rate) /\ RatLe(win_rate, One)) THEN Raised
    ELSE IF RatLt(odds, Zero) THEN Raised
    ELSE IF odds.n = 0 THEN Zero
    ELSE LET lose_rate == RatSub(One, win_rate)
             kelly_value == RatDiv(RatSub(RatMul(win_rate, odds), lose_rate), odds)
             adjusted_kelly == RatMul(kelly_value, k.fraction)
         IN IF RatLt(adjusted_kelly, Zero) THEN Zero
            ELSE Clip(adjusted_kelly, k.min_position, k.max_position)

\* A calculate call on some calculator.
CallKellyCalculate ==
    /\ \E k \in KellyConfigs, win_rate \in WinRates, odds \in OddsValues :
         calc' = [fn |-> "kelly", k |-> k, win_rate |-> win_rate, odds |-> odds,
                  result |-> KellyCalculate(k, win_rate, odds)]
    /\ UNCHANGED <<coreVars, sched, db, pred, boot>>

\* --------------------------------- AlphaFactors.calculate_composite_score
\* The z-score bound of lines 324 and 329, in tenths, and the adjustments of
\* lines 326 and 331.
ZScoreBound == 20
InflowAdjustment == -20
OutflowAdjustment == 10

\* onchain_zscore is None.
NoZScore == 1000

\* np.clip(x, 0, 100) on a score.
ClipScore(x) == IF x < 0 THEN 0 ELSE IF x > 100 THEN 100 ELSE x

\* Weighted sums of the four indicator scores before line 320 clips them.
RawScores == -10 .. 120

\* Lines 320-335 with the inflow branch left out.
CompositeScoreNoInflow(raw, onchain_zscore) ==
    LET composite == ClipScore(raw)
    IN IF onchain_zscore # NoZScore /\ onchain_zscore < -ZScoreBound
       THEN ClipScore(composite + OutflowAdjustment)
       ELSE composite

\* Lines 317-335: the clipped sum, lowered on an abnormal inflow and raised
\* on an abnormal outflow, clipped again.
CompositeScore(raw, onchain_zscore) ==
    LET composite == ClipScore(raw)
    IN IF onchain_zscore = NoZScore THEN composite
       ELSE IF onchain_zscore > ZScoreBound
       THEN ClipScore(composite + InflowAdjustment)
       ELSE IF onchain_zscore < -ZScoreBound
       THEN ClipScore(composite + OutflowAdjustment)
       ELSE composite

\* The score of the same bars and weights without on-chain input, at
\* z = 2.5 and at z = -2.5.
CallCompositeScore ==
    /\ \E raw \in RawScores :
         calc' = [fn |-> "composite", raw |-> raw,
                  plain |-> CompositeScore(raw, NoZScore),
                  inflow |-> CompositeScore(raw, 25),
                  outflow |-> CompositeScore(raw, -25)]
    /\ UNCHANGED <<coreVars, sched, db, pred, boot>>

\* ----------------------------------------------------------------- bot.py
\* Seconds of the minute the clock covers.
BootHorizon == 12

\* Values of the environment's TRADING_MODE, BINANCE_API_KEY and
\* BINANCE_SECRET_KEY.
TradingModes == {"PAPER", "LIVE", "TEST"}
ApiKeys == {"", "key"}
SecretKeys == {"", "secret"}

\* Seconds the body of a job takes.
JobSeconds == {2, 4, 6}

\* The second of the minute a job's cron trigger fires at.
CronSecond(id) == IF id = "job_update_market_data" THEN 5 ELSE 10

\* Config read at import: TRADING_MODE outside PAPER and LIVE raises out of
\* the class body, before main() runs.
ConfigImport(b, mode, api_key, secret_key) ==
    IF mode \notin {"PAPER", "LIVE"}
    THEN [b EXCEPT !.mode = mode, !.pc = "exited", !.exit = 1]
    ELSE [b EXCEPT !.mode = mode, !.api_key = api_key,
                   !.secret_key = secret_key, !.pc = "main"]

\* main() lines 179-198 around initialize_system(): create_app, Scheduler()
\* and setup_all_jobs() run and the function returns True; an exception of
\* create_app reaches main's except and the process exits with 1.
InitializeSystemStep(b, createOk) ==
    IF ~createOk
    THEN [b EXCEPT !.pc = "exited", !.exit = 1]
    ELSE [b EXCEPT !.pc = "initialized"]

ImportConfig ==
    /\ boot.pc = "import"
    /\ \E mode \in TradingModes, api_key \in ApiKeys, secret_key \in SecretKeys :
         boot' = ConfigImport(boot, mode, api_key, secret_key)
    /\ UNCHANGED <<coreVars, sched, db, pred, calc>>

InitializeSystem ==
    /\ boot.pc = "main"
    /\ \E createOk \in BOOLEAN :
         boot' = InitializeSystemStep(boot, createOk)
    /\ UNCHANGED <<coreVars, sched, db, pred, calc>>

\* run_scheduler: scheduler.start(), at some second of the minute before
\* the first trigger.
RunScheduler ==
    /\ boot.pc = "initialized"
    /\ \E sec \in 0..4 :
         boot' = [boot EXCEPT !.pc = "running", !.sec = sec]
    /\ UNCHANGED <<coreVars, sched, db, pred, calc>>

\* A cron trigger fires: the job's body starts on a thread of the pool.
\* Nothing else than the job's own running instance holds a firing back.
CronFire(id) ==
    /\ boot.pc = "running"
    /\ boot.sec = CronSecond(id)
    /\ boot.job[id] = "idle"
    /\ \E seconds \in JobSeconds :
         boot' = [boot EXCEPT
                    !.job[id] = "running", !.left[id] = seconds,
                    !.fetchAtScan = IF id = "job_scan_signals"
                                    THEN boot.job["job_update_market_data"]
                                    ELSE @]
    /\ UNCHANGED <<coreVars, sched, db, pred, calc>>

\* A job's body returns; for the market-data job its bars are committed.
CronFinish(id) ==
    /\ boot.job[id] = "running"
    /\ boot.left[id] = 0
    /\ boot' = [boot EXCEPT !.job[id] = "done"]
    /\ UNCHANGED <<coreVars, sched, db, pred, calc>>

\* A second of the heartbeat loop; the scheduler thread has handled the
\* firings that were due and the bodies that were over have returned.
BootTick ==
    /\ boot.pc = "running"
    /\ boot.sec < BootHorizon
    /\ \A id \in CronJobs :
         /\ boot.sec = CronSecond(id) => boot.job[id] # "idle"
         /\ boot.job[id] = "running" => boot.left[id] > 0
    /\ boot' = [boot EXCEPT
                  !.sec = @ + 1,
                  !.left = [id \in CronJobs |-> IF @[id] > 0 THEN @[id] - 1 ELSE 0]]
    /\ UNCHANGED <<coreVars, sched, db, pred, calc>>

\* SIGINT or SIGTERM: the loop ends, main's finally shuts the scheduler
\* down and the process ends normally.
SignalHandler ==
    /\ boot.pc = "running"
    /\ \A id \in CronJobs : boot.job[id] # "running"
    /\ boot' = [boot EXCEPT !.pc = "exited", !.exit = 0]
    /\ UNCHANGED <<coreVars, sched, db, pred, calc>>

\* ---------------------------------------------------------- specifications
\* The thread the scheduler runs the scan job on.
ScanThread == "t1"

\* The control plane: the executor runs place_order while the operator's
\* commands and writes to the flag arrive at any point.
Next ==
    \/ CallPlaceOrder(ScanThread)
    \/ PlaceOrderGates(ScanThread)
    \/ CreateOrderWhole(ScanThread)
    \/ Return(ScanThread)
    \/ \E v \in FlagValues : RedisSet(v)
    \/ \E c \in Commands : HandleCommand(c)

Spec == Init /\ [][Next]_vars

\* The scan tick: one execute_strategy at a time (the scheduler's
\* single-instance guarantee), with the operator stopping and resuming
\* trading at any point.

NextStrategy ==
    \/ CallExecuteStrategy(ScanThread)
    \/ StrategyEntry(ScanThread)
    \/ StrategyLoop(ScanThread)
    \/ PlaceOrderGates(ScanThread)
    \/ CreateOrderWhole(ScanThread)
    \/ Return(ScanThread)
    \/ \E v \in {"true", "false"} : RedisSet(v)

SpecStrategy == Init /\ [][NextStrategy]_vars

\* The simulated gateway under concurrent callers, statement by statement.
NextRace ==
    \/ \E t \in Threads : CallPlaceOrder(t)
    \/ \E t \in Threads : GatewayStep(t, FALSE)
    \/ FetchBalance

SpecRace == Init /\ [][NextRace]_vars

\* The simulated gateway with one caller at a time, file-system calls that
\* may raise, and a process that may die and be started again.
NextSeq ==
    \/ AllIdle /\ CallPlaceOrder(ScanThread)
    \/ GatewayStep(ScanThread, TRUE)
    \/ FetchBalance
    \/ Restart

SpecSeq == Init /\ [][NextSeq]_vars

\* As SpecSeq, but file-system calls never raise.
NextCrash ==
    \/ AllIdle /\ CallPlaceOrder(ScanThread)
    \/ GatewayStep(ScanThread, FALSE)
    \/ Restart

SpecCrash == Init /\ [][NextCrash]_vars

\* The executor on the simulated gateway with trading enabled throughout:
\* orders build up positions and the panic path closes them.
NextClose ==
    \/ CallPlaceOrder(ScanThread)
    \/ PlaceOrderGates(ScanThread)
    \/ CreateOrderWhole(ScanThread)
    \/ Return(ScanThread)
    \/ CallCloseAll(ScanThread)
    \/ PaperPositions(ScanThread)
    \/ CloseLoop(ScanThread)

SpecClose == Init /\ [][NextClose]_vars

\* The executor on the live gateway, with the operator stopping and
\* resuming trading at any point.
NextVenue ==
    \/ CallPlaceOrder(ScanThread)
    \/ PlaceOrderGates(ScanThread)
    \/ VenueCreateOrder(ScanThread)
    \/ Return(ScanThread)
    \/ CallCloseAll(ScanThread)
    \/ VenuePositions(ScanThread)
    \/ CloseLoop(ScanThread)
    \/ \E v \in {"true", "false"} : RedisSet(v)

SpecVenue == Init /\ [][NextVenue]_vars

\* The scan tick with the ML filter's threshold chosen by the caller and
\* trading enabled throughout.
NextMl ==
    \/ CallExecuteStrategyWith(ScanThread)
    \/ StrategyEntry(ScanThread)
    \/ StrategyLoop(ScanThread)
    \/ PlaceOrderGates(ScanThread)
    \/ CreateOrderWhole(ScanThread)
    \/ Return(ScanThread)

SpecMl == Init /\ [][NextMl]_vars

\* The position monitor on the live gateway, with the operator stopping and
\* resuming trading at any point.
NextMonitor ==
    \/ CallMonitor(ScanThread)
    \/ MonitorGetPositions(ScanThread)
    \/ MonitorLoop(ScanThread)
    \/ PlaceOrderGates(ScanThread)
    \/ VenueCreateOrder(ScanThread)
    \/ Return(ScanThread)
    \/ \E v \in {"true", "false"} : RedisSet(v)

SpecMonitor == Init /\ [][NextMonitor]_vars

\* Position sizing between orders on the simulated gateway, and on a live
\* venue's balance.
NextSizing ==
    \/ CallPlaceOrder(ScanThread)
    \/ PlaceOrderGates(ScanThread)
    \/ CreateOrderWhole(ScanThread)
    \/ Return(ScanThread)
    \/ CallCalculateMaxPosition(ScanThread)

SpecSizing == Init /\ [][NextSizing]_vars

\* The scheduler over a few seconds: registrations, start, firings, job
\* bodies and shutdown.
NextScheduler ==
    \/ AddJob
    \/ SetupMarketDataJobs
    \/ SchedulerStart
    \/ \E id \in JobIds : Fire(id)
    \/ \E id \in JobIds : Finish(id)
    \/ Tick
    \/ SchedulerShutdown
    \/ ShutdownReturn

SpecScheduler == Init /\ [][NextScheduler]_vars

\* Runs of the market data job on one table.
NextFetch ==
    \/ FetchJobStart
    \/ FetchJobRow
    \/ FetchJobCommit
    \/ FetchJobReturn

SpecFetch == Init /\ [][NextFetch]_vars

\* Threads calling get_instance at once, a statement at a time.
NextPredictor ==
    \E p \in PredThreads :
        \/ GetInstance(p)
        \/ NewCheck(p)
        \/ NewLock(p)
        \/ NewCreate(p)
        \/ NewSetInitialized(p)
        \/ InitCheck(p)
        \/ InitReset(p)
        \/ InitLoad(p)
        \/ InitDone(p)
        \/ PredictorReturn(p)

SpecPredictor == Init /\ [][NextPredictor]_vars

\* One predictor over its loads and predictions.
NextLoad ==
    \/ Construct
    \/ ReloadModel
    \/ PredictProbaCall

SpecLoad == Init /\ [][NextLoad]_vars

\* Calls of KellyCalculator.calculate.
NextKelly == CallKellyCalculate

SpecKelly == Init /\ [][NextKelly]_vars

\* Calls of calculate_composite_score.
NextComposite == CallCompositeScore

SpecComposite == Init /\ [][NextComposite]_vars

\* The simulated gateway under concurrent callers, with resets and with a
\* process that may die and be started again.
NextLedger ==
    \/ \E t \in Threads : CallPlaceOrder(t)
    \/ \E t \in Threads : GatewayStep(t, FALSE)
    \/ Reset
    \/ Restart

SpecLedger == Init /\ [][NextLedger]_vars

\* One caller at a time on the simulated gateway, with amounts and prices
\* of either sign.
NextSigned ==
    \/ CallPlaceOrderSigned(ScanThread)
    \/ PlaceOrderGates(ScanThread)
    \/ CreateOrderWhole(ScanThread)
    \/ Return(ScanThread)

SpecSigned == Init /\ [][NextSigned]_vars

\* One scan tick over a list that may hold a malformed signal, with the
\* flag written meanwhile.
NextTick ==
    \/ CallExecuteStrategyTick(ScanThread)
    \/ StrategyEntry(ScanThread)
    \/ StrategyLoop(ScanThread)
    \/ PlaceOrderGates(ScanThread)
    \/ CreateOrderWhole(ScanThread)
    \/ Return(ScanThread)
    \/ \E v \in {"true", "false"} : RedisSet(v)

SpecTick == Init /\ [][NextTick]_vars

\* The bot process from import to exit, with its two cron jobs.
NextBoot ==
    \/ ImportConfig
    \/ InitializeSystem
    \/ RunScheduler
    \/ \E id \in CronJobs : CronFire(id)
    \/ \E id \in CronJobs : CronFinish(id)
    \/ BootTick
    \/ SignalHandler

SpecBoot == Init /\ [][NextBoot]_vars

\* ------------------------------------------------------------------ claims
InCreateOrder ==
    {t \in Threads : th[t].pc \in {"co_upd1_r", "co_upd1_w", "co_upd2_r",
                                   "co_upd2_w", "co_id", "co_inc_r", "co_inc_w",
                                   "co_append", "sv_open", "sv_write"}}

\* C1: whenever place_order's read of TRADING_ENABLED returns 'false', the
\* call ends there with TradingSuspended, for a buy and for a sell alike:
\* create_order is not called and the ledger and its file are unchanged.
C1_SuspendedBlocksOrder ==
    [][\A t \in Threads :
         (th[t].pc = "po_gate" /\ th'[t].flagRead = "false")
         => /\ th'[t].pc = "done"
            /\ th'[t].ret = "TradingSuspended"
            /\ th'[t].gw = 0
            /\ UNCHANGED <<ledgerVars, file>>]_vars

\* C1 witness: a sell that read 'false' and was refused.
C1_Witness ==
    \E t \in Threads :
        /\ th[t].pc = "done" /\ th[t].side = "sell"
        /\ th[t].flagRead = "false" /\ th[t].ret = "TradingSuspended"

\* C2: after /stop and /start commands have been handled, the flag reads
\* 'false' if the last command was /stop and 'true' if it was /start.
C2_LastCommandSetsFlag ==
    /\ cmdlog = "/stop" => flag = "false"
    /\ cmdlog = "/start" => flag = "true"

\* C3: a place_order call that started while the flag was 'false', with no
\* write of another value before its read and a read that succeeded, never
\* reaches the gateway.
C3_NoDispatchAfterStop ==
    \A t \in Threads :
        th[t].gw > 0 =>
            ~(th[t].startedOff /\ ~th[t].resumed
              /\ th[t].flagRead \notin {"unread", "error"})

\* C3 witness: such a call has run and was refused.
C3_Witness ==
    \E t \in Threads :
        /\ th[t].pc = "done" /\ th[t].startedOff /\ ~th[t].resumed
        /\ th[t].flagRead = "false" /\ th[t].gw = 0

\* C4: if execute_strategy reads the flag as 'false' at entry it returns an
\* empty result list, having called neither place_order nor the gateway.
C4_SuspendedTickPlacesNothing ==
    \A t \in Threads :
        (th[t].outer = "strategy" /\ th[t].entryRead = "false")
        => /\ th[t].pc = "done"
           /\ th[t].results = <<>>
           /\ th[t].placed = 0
           /\ th[t].gw = 0

\* C4 witness: a tick with signals that read 'false' at entry.
C4_Witness ==
    \E t \in Threads :
        /\ th[t].outer = "strategy" /\ th[t].entryRead = "false"
        /\ Len(th[t].signals) = MaxSignals

C6_ObservedAtomic == obs.seen => (obs.logged /\ obs.saved)

\* C7: with no call inside create_order, the ledger is one that running the
\* calls one after the other leaves: the log accounts for the balances, no
\* balance is overdrawn, and the ids are 1..n with the counter at n + 1.
C7_SerialOutcome ==
    InCreateOrder = {} =>
        /\ balances = ReplayBalances(order_history)
        /\ \A a \in Assets : balances[a] >= 0
        /\ order_id_counter = Len(order_history) + 1
        /\ \A i \in 1..Len(order_history) : order_history[i].id = i

\* C8: after create_order has returned an order, the file reloads to the
\* in-memory balances, log and counter, also when a file-system call failed.
C8_SnapshotReloads ==
    \A t \in Threads :
        (th[t].pc = "done" /\ th[t].ret = "success")
        => LoadState(file) = MemLedger

\* C9: a gateway restarted after the process died inside create_order holds
\* the ledger as it stood after the last order that returned, or that ledger
\* with the order in flight applied.
C9_CrashLosesAtMostInFlight ==
    [][Restart =>
         MemLedger' \in ({lastReturned}
                         \cup {CommitOrder(lastReturned, th[t]) : t \in InCreateOrder})]_vars

\* The prices an order can execute at: its limit price, or for a market
\* order the ask (buy) or bid (sell) of a ticker fetch_ticker can return.
QuotedPrices(r) ==
    IF r.otype = "limit" /\ r.price # NoPrice
    THEN {r.price}
    ELSE {IF r.side = "buy" THEN FetchTicker(ok).ask ELSE FetchTicker(ok).bid :
            ok \in BOOLEAN}

C11_SuccessfulOrderEffect ==
    [][\A t \in Threads :
         (th[t].pc \in {"sv_open", "sv_write"} /\ th'[t].pc = "done")
         => LET r == th[t]
                l == lastReturned
                p == r.xprice
                o == order_history'[Len(order_history')]
            IN /\ th'[t].ret = "success"
               /\ p \in QuotedPrices(r)
               /\ (r.side = "sell" /\ r.otype = "market") => p \in {LiveTicker.bid, DefaultBid}
               /\ balances'[Quote] = l.balances[Quote]
                     + (IF r.side = "buy" THEN 0 - r.amount * p ELSE r.amount * p)
               /\ balances'[Base] = l.balances[Base]
                     + (IF r.side = "buy" THEN r.amount ELSE 0 - r.amount)
               /\ Len(order_history') = Len(l.order_history) + 1
               /\ SubSeq(order_history', 1, Len(l.order_history)) = l.order_history
               /\ o.status = "closed" /\ o.side = r.side /\ o.amount = r.amount
               /\ o.price = p /\ o.cost = r.amount * p
               /\ order_id_counter' = l.order_id_counter + 1]_vars

\* C11 witness: a market sell has returned an order after an earlier order.
C11_Witness ==
    /\ Len(order_history) >= 2
    /\ order_history[Len(order_history)].side = "sell"
    /\ order_history[Len(order_history)].type = "market"
    /\ \E t \in Threads : th[t].pc = "done" /\ th[t].ret = "success"

\* C12: when the price source raises while a market order (or a limit order
\* without a price) resolves its execution price, place_order returns an
\* error record and balances, log and counter are unchanged.
C12_PriceFailureFailsOrder ==
    [][\A t \in Threads :
         (th[t].pc = "co_check" /\ th'[t].srcFailed)
         => /\ th'[t].pc = "done"
            /\ th'[t].ret = "error"
            /\ UNCHANGED ledgerVars]_vars

\* C13: once the two gates have passed, place_order does not raise: whatever
\* the gateway's create_order does (an order, a response without an id, a
\* venue error, a timeout, insufficient funds), the caller gets a record
\* with status error for the same side, or a record with status success
\* that carries the gateway's order id.
C13_GatewayFailureIsRecord ==
    [][\A t \in Threads :
         (/\ th[t].pc = "co_check" /\ th[t].outer = "direct"
          /\ th'[t].gw = th[t].gw + 1)
         => /\ th'[t].pc = "done"
            /\ th'[t].ret \in {"success", "error"}
            /\ th'[t].side = th[t].side
            /\ th'[t].ret = "success" => th'[t].retId \in VenueOrderIds
            /\ th'[t].ret = "error" => th'[t].retId = 0]_vars

\* C13 witness: the venue timed out or refused, and the caller holds an
\* error record.
C13_Witness ==
    \E t \in Threads :
        /\ th[t].pc = "done" /\ th[t].outer = "direct" /\ th[t].gw = 1
        /\ th[t].ret = "error" /\ th[t].retId = 0
        /\ order_history = <<>>

\* C14: a place_order that got past the kill switch fails with PanicTooHigh,
\* with nothing sent to the gateway, when it is a buy whose panic_score is
\* above panic_threshold; a buy with no panic_score or one at or below the
\* threshold, and every sell, goes on to the gateway call.
C14_PanicGate ==
    [][\A t \in Threads :
         (/\ th[t].pc = "po_gate" /\ th[t].outer = "direct"
          /\ th'[t].pc # "po_gate"
          /\ th'[t].ret # "TradingSuspended")
         => IF th[t].side = "buy" /\ th[t].panic # NoPanic
               /\ th[t].panic > PanicThreshold
            THEN /\ th'[t].pc = "done"
                 /\ th'[t].ret = "PanicTooHigh"
                 /\ th'[t].gw = 0
                 /\ UNCHANGED <<ledgerVars, file>>
            ELSE /\ th'[t].pc = "co_check"
                 /\ th'[t].side = th[t].side
                 /\ th'[t].amount = th[t].amount]_vars

\* C14 witness: a buy above the threshold was refused and, in the same run,
\* an order had gone through to the gateway before.
C14_Witness ==
    /\ Len(order_history) >= 1
    /\ \E t \in Threads :
          /\ th[t].pc = "done" /\ th[t].ret = "PanicTooHigh"
          /\ th[t].side = "buy" /\ th[t].gw = 0

C16_CloseAllFlattens ==
    \A t \in Threads :
        (th[t].outer = "close" /\ th[t].pc = "done")
        => /\ th[t].ret = "returned"
           /\ \A a \in Assets \ {Quote} : balances[a] = 0
           /\ Len(th[t].results) = th[t].held
           /\ \A i \in 1..Len(th[t].results) : th[t].results[i] = "success"

\* C17: when the /panic command has been handled, TRADING_ENABLED reads
\* 'false' (the handler writes it before it closes the positions and
\* acknowledges).
C17_PanicSetsFlagFirst == cmdlog = "/panic" => flag = "false"

\* C18: close_all_positions running while TRADING_ENABLED reads 'false'
\* still closes each open position: none of its results is an error that the
\* kill switch caused.
C18_CloseAllIgnoresKillSwitch ==
    \A t \in Threads :
        th[t].outer = "close"
        => \A i \in 1..Len(th[t].results) : th[t].results[i] # "error_suspended"

\* C19: close_all_positions never raises, whatever the gateway does and
\* whatever the position records contain.
C19_CloseAllNeverRaises ==
    \A t \in Threads :
        (th[t].outer = "close" /\ th[t].pc = "done") => th[t].ret = "returned"

\* C20: with the model not loaded and the default threshold, execute_strategy
\* records a buy signal that carries features as filtered and sends no
\* order for it.
C20_DisabledModelFilters ==
    [][\A t \in Threads :
         (/\ th[t].pc = "es_loop" /\ th'[t] # th[t]
          /\ ~th[t].mlOn
          /\ th[t].signals # <<>>
          /\ Head(th[t].signals).action = "buy"
          /\ Head(th[t].signals).features # NoFeatures)
         => /\ th'[t].pc = "es_loop"
            /\ th'[t].results = Append(th[t].results, "filtered")
            /\ th'[t].signals = Tail(th[t].signals)
            /\ th'[t].placed = th[t].placed
            /\ th'[t].gw = th[t].gw]_vars

\* C21: with the model loaded, execute_strategy records a signal as filtered,
\* and places no order for it, exactly when it is a buy that carries features
\* whose predicted probability is below the ml_threshold of this call; every
\* sell and every buy at or above the threshold enters place_order.
C21_FilterExactlyBelowThreshold ==
    [][\A t \in Threads :
         (/\ th[t].pc = "es_loop" /\ th'[t] # th[t]
          /\ th[t].mlOn
          /\ th[t].signals # <<>>)
         => LET sig == Head(th[t].signals) IN
            IF sig.action = "buy" /\ sig.features # NoFeatures
               /\ sig.features < th[t].mlThreshold
            THEN /\ th'[t].pc = "es_loop"
                 /\ th'[t].results = Append(th[t].results, "filtered")
                 /\ th'[t].signals = Tail(th[t].signals)
                 /\ th'[t].placed = th[t].placed
                 /\ th'[t].gw = th[t].gw
            ELSE /\ th'[t].pc = "po_gate"
                 /\ th'[t].placed = th[t].placed + 1
                 /\ th'[t].side = sig.action
                 /\ th'[t].amount = sig.amount
                 /\ th'[t].results = th[t].results]_vars

\* C21 witness: a tick with threshold 0.7 has filtered one buy and sent a
\* buy whose probability is exactly 0.7 on to place_order.
C21_Witness ==
    \E t \in Threads :
        /\ th[t].outer = "strategy" /\ th[t].mlOn /\ th[t].mlThreshold = 70
        /\ th[t].results = <<"filtered">>
        /\ th[t].pc = "po_gate" /\ th[t].signals # <<>>
        /\ Head(th[t].signals).features = 70

\* C22: in a monitor_positions call, a position with a known entry price
\* whose current price was obtained gets a market sell of its amount exactly
\* when current <= entry x (1 - stop_loss_pct), with reason stop_loss, or
\* current >= entry x (1 + take_profit_min), with reason take_profit; a
\* position without an entry price gets none, and no position gets more
\* than one.
C22_MonitorTriggers ==
    [][\A t \in Threads :
         /\ (/\ th[t].pc = "mo_loop" /\ th'[t] # th[t]
              /\ th[t].positions # <<>>)
            => LET position == Head(th[t].positions)
                   entry == position.entryPrice
                   current == th'[t].last
                   stop == entry # NoEntry /\ current # 0
                           /\ current * 100 <= entry * (100 - StopLossPercent)
                   take == entry # NoEntry /\ current # 0
                           /\ current * 100 >= entry * (100 + TakeProfitMin)
               IN IF stop \/ take
                  THEN /\ th'[t].pc = "po_gate"
                       /\ th'[t].side = "sell" /\ th'[t].otype = "market"
                       /\ th'[t].amount = position.contracts
                       /\ th'[t].reason = IF stop THEN "stop_loss" ELSE "take_profit"
                       /\ th'[t].placed = th[t].placed + 1
                  ELSE /\ th'[t].pc = "mo_loop"
                       /\ th'[t].placed = th[t].placed
                       /\ th'[t].positions = Tail(th[t].positions)
         /\ th'[t].outer = "monitor"
            => th'[t].placed + Len(th'[t].positions)
                 <= th'[t].held + (IF th'[t].pc \in {"po_gate", "co_check"}
                                   THEN 1 ELSE 0)]_vars

\* C22 witness: one call has closed a position at its stop and another at
\* its target, both taken by the venue.
C22_Witness ==
    \E t \in Threads :
        /\ th[t].outer = "monitor" /\ th[t].pc = "done"
        /\ th[t].results = <<"success_stop_loss", "success_take_profit">>

\* C23: with TRADING_ENABLED reading 'false', the close order that
\* monitor_positions issues for a position at its stop or its target still
\* goes to the gateway.
C23_MonitorClosesWhenStopped ==
    [][\A t \in Threads :
         (/\ th[t].outer = "monitor" /\ th[t].pc = "po_gate"
          /\ th'[t].pc # "po_gate")
         => /\ th'[t].pc = "co_check"
            /\ th'[t].reason = th[t].reason]_vars

\* C24: on the live and on the simulated gateway, calculate_max_position
\* at a positive price returns free quote balance x max_position_size /
\* price (in tenths here).
C24_MaxPositionFromFreeQuote ==
    \A t \in Threads :
        (/\ th[t].outer = "sizing"
         /\ th[t].sizing.gateway \in {"paper", "live"}
         /\ th[t].sizing.price > 0)
        => th[t].sizing.result
             = (th[t].sizing.free * MaxPositionSize) \div th[t].sizing.price

\* C25: a job id never has two bodies running at once: a body starts only
\* when none of the same id is running, and a job whose body takes two
\* seconds or more starts at most 3 times in the first 5 seconds.
C25_SingleInstance ==
    [][\A id \in JobIds :
         /\ sched'.inst[id] <= 1
         /\ sched'.starts[id] > sched.starts[id] => sched.inst[id] = 0
         /\ sched'.now <= 5 => sched'.starts[id] <= 3]_vars

\* C25 witness: a firing found the previous body of the same job still
\* running and started nothing.
C25_Witness ==
    \E id \in JobIds :
        /\ sched.inst[id] = 1 /\ sched.starts[id] = 1
        /\ sched.jobs[id] # NoJob
        /\ sched.jobs[id].next > sched.now
        /\ sched.jobs[id].interval = 1
        /\ sched.now = 2

\* C26: when shutdown(wait=True) has returned no job body is running, and
\* none starts afterwards (until the scheduler is started again).
C26_ShutdownDrains ==
    [][sched'.shut = "returned"
         => /\ \A id \in JobIds : sched'.inst[id] = 0
            /\ sched.shut = "returned" => sched'.starts = sched.starts]_vars

\* C27: registering a job never fails on an id that is registered already,
\* neither in add_job nor when start() moves the pending jobs to the store.
C27_DuplicateIdReplaces ==
    sched.lastAdd # "raised" /\ sched.lastStart # "raised"

\* C28: a run of the fetch job ends by returning, and a run whose fetch or
\* commit failed ends with the session rolled back and none of its records
\* committed.
C28_FetchJobNeverRaises ==
    db.pc = "done"
    => /\ db.result = "returned"
       /\ db.failure # "none"
          => /\ db.rolledBack /\ ~db.committed /\ db.pending = {}
             /\ db.failure = "fetch" => db.rows = db.before

\* C28 witness: the second run fetched bars, failed at the commit and
\* returned.
C28_Witness ==
    /\ db.pc = "done" /\ db.run = 2 /\ db.failure = "commit"
    /\ db.result = "returned" /\ db.batch # <<>>

C30_SingletonInitOnce ==
    [][/\ pred'.inits <= 1
       /\ pred'.created <= 1
       /\ \A p \in PredThreads :
             /\ pred'.t[p].pc # "raised"
             /\ pred'.t[p].pc = "done" => pred'.t[p].got = 1
       /\ (pred.initialized = "true" /\ pred.enabled) => pred'.enabled]_vars

C32_KellyWithinLimits ==
    (/\ calc.fn = "kelly"
     /\ RatLe(Zero, calc.win_rate) /\ RatLe(calc.win_rate, One)
     /\ RatLe(Zero, calc.odds))
    => /\ calc.result # Raised
       /\ RatLe(Zero, calc.result)
       /\ RatLe(calc.result, calc.k.max_position)
       /\ (\/ calc.win_rate.n = 0
           \/ calc.odds.n = 0
           \/ RatLt(RatDiv(RatSub(RatMul(calc.win_rate, calc.odds),
                                   RatSub(One, calc.win_rate)),
                            calc.odds),
                     Zero))
          => calc.result.n = 0

\* C32 witness: a negative Kelly value on a calculator with a minimum
\* position above zero.
C32_Witness ==
    /\ calc.fn = "kelly"
    /\ calc.win_rate = Rat(1, 4) /\ calc.odds = Rat(2, 2)
    /\ calc.k.min_position = Rat(1, 2)
    /\ calc.result = Zero

\* C33 as stated: for every unadjusted score in [0, 100] the score at
\* z = 2.5 is strictly below it and the score at z = -2.5 strictly above.
C33_OnchainStrictlyOrders ==
    calc.fn = "composite"
    => calc.inflow < calc.plain /\ calc.plain < calc.outflow

\* C33 amended: the score at z = 2.5 is the unadjusted score less 20, not
\* below 0, and the score at z = -2.5 is the unadjusted score plus 10, not
\* above 100; the order is strict except for an unadjusted score of 0
\* (inflow) or of 100 (outflow).
C33_OnchainOrdersClipped ==
    calc.fn = "composite"
    => /\ calc.plain \in 0..100
       /\ calc.inflow = (IF calc.plain < 20 THEN 0 ELSE calc.plain - 20)
       /\ calc.outflow = (IF calc.plain > 90 THEN 100 ELSE calc.plain + 10)
       /\ calc.inflow <= calc.plain /\ calc.plain <= calc.outflow
       /\ calc.plain > 0 => calc.inflow < calc.plain
       /\ calc.plain < 100 => calc.plain < calc.outflow

\* C33 witness: an unadjusted score of 95, lowered to 75 and raised to the
\* limit of 100.
C33_Witness ==
    /\ calc.fn = "composite" /\ calc.plain = 95
    /\ calc.inflow = 75 /\ calc.outflow = 100

\* C34: in LIVE mode with the API key or the secret missing, the process
\* exits with code 1 before the scheduler is started and no job ever runs.
C34_LiveNeedsCredentials ==
    (boot.mode = "LIVE" /\ (boot.api_key = "" \/ boot.secret_key = ""))
    => /\ boot.pc \notin {"initialized", "running"}
       /\ boot.exit # 0
       /\ \A id \in CronJobs : boot.job[id] = "idle"

\* C35: place_order checks the kill switch, then the panic gate, then
\* dispatches, and stops at the first failure: a buy above the panic
\* threshold that reads TRADING_ENABLED as 'false' ends with
\* TradingSuspended, PanicTooHigh is raised only after a kill switch that
\* let the order pass, and neither rejection reaches the gateway.
C35_GateOrder ==
    [][\A t \in Threads :
         (/\ th[t].pc = "po_gate" /\ th[t].outer = "direct"
          /\ th'[t].pc # "po_gate")
         => /\ (/\ Lower(th'[t].flagRead) = "false"
                 /\ th[t].side = "buy" /\ th[t].panic # NoPanic
                 /\ th[t].panic > PanicThreshold)
               => th'[t].ret = "TradingSuspended"
            /\ th'[t].ret = "PanicTooHigh"
               => Lower(th'[t].flagRead) # "false"
            /\ th'[t].ret \in {"TradingSuspended", "PanicTooHigh"}
               => /\ th'[t].pc = "done"
                  /\ th'[t].gw = 0
                  /\ UNCHANGED <<ledgerVars, file>>
            /\ th'[t].ret \notin {"TradingSuspended", "PanicTooHigh"}
               => th'[t].pc = "co_check"]_vars

\* C35 witness: a buy above the panic threshold was refused with
\* TradingSuspended on reading 'false', without a gateway call.
C35_Witness ==
    \E t \in Threads :
        /\ th[t].pc = "done" /\ th[t].side = "buy"
        /\ th[t].panic # NoPanic /\ th[t].panic > PanicThreshold
        /\ th[t].flagRead = "false" /\ th[t].ret = "TradingSuspended"
        /\ th[t].gw = 0

\* C36: a tick that was not suspended at entry returns one record per input
\* signal, in the order of the input: the signals still to handle are the
\* end of the input and the records so far answer its beginning; a
\* malformed signal, a buy refused by the panic gate and a signal refused
\* by the kill switch or failed at the gateway give an error record, and
\* the signals after it are handled all the same.
C36_OneRecordPerSignal ==
    \A t \in Threads :
        (th[t].outer = "strategy" /\ th[t].input # <<>>
         /\ th[t].pc \notin {"idle", "es_entry"}
         /\ ~(th[t].pc = "done" /\ Lower(th[t].entryRead) = "false"))
        => LET r == th[t]
               n == Len(r.results)
           IN /\ n + Len(r.signals) = Len(r.input)
              /\ r.signals = SubSeq(r.input, n + 1, Len(r.input))
              /\ r.pc = "done" => n = Len(r.input)
              /\ \A i \in 1..n :
                    /\ r.results[i] \in {"success", "error", "filtered"}
                    /\ Malformed(r.input[i]) => r.results[i] = "error"
                    /\ r.results[i] = "filtered"
                       <=> (~Malformed(r.input[i])
                            /\ MlFiltered(r.input[i], r.mlOn, r.mlThreshold))
                    /\ (/\ ~Malformed(r.input[i])
                        /\ ~MlFiltered(r.input[i], r.mlOn, r.mlThreshold)
                        /\ PanicGate(r.input[i].action, r.spanic))
                       => r.results[i] = "error"

\* C36 witness: a tick returned an error record for a malformed first
\* signal and a success record for the signal after it.
C36_Witness ==
    \E t \in Threads :
        /\ th[t].pc = "done" /\ th[t].outer = "strategy"
        /\ Len(th[t].input) = 2 /\ Malformed(th[t].input[1])
        /\ th[t].results = <<"error", "success">>

\* C37: a run of the fetch job that made its own fetcher has closed it when
\* the run ends, whichever way it ends.
C37_FetcherClosed ==
    db.pc = "done" => db.fetcher = "closed"

\* C38: when the scan job's body starts at second :10, the body of the
\* market-data job that fired at :05 of the minute has finished.
C38_ScanAfterFetch ==
    boot.job["job_scan_signals"] # "idle" => boot.fetchAtScan = "done"

\* C39: the ids of the entries in the order log are pairwise distinct and
\* the order-id counter is greater than every logged id.
C39_OrderIdsDistinct ==
    /\ \A i, j \in DOMAIN order_history :
          i # j => order_history[i].id # order_history[j].id
    /\ \A i \in DOMAIN order_history :
          order_history[i].id < order_id_counter

\* C40: when a create_order whose amount or limit price is zero or negative
\* ends, rejected or not, every asset balance is >= 0.
C40_NonPositiveOrderKeepsBalances ==
    [][\A t \in Threads :
         (/\ th[t].pc = "co_check" /\ th'[t].pc = "done"
          /\ (\/ th[t].amount <= 0
              \/ (th[t].price # NoPrice /\ th[t].price < 0)))
         => \A a \in Assets : balances'[a] >= 0]_vars

=============================================================================
